---- MODULE Spec2Model ----
(***************************************************************************)
(* GEPA (Genetic-Pareto) search engine of fiberplane/darlings:             *)
(* the archive, the per-task Pareto index, the subsample filter and the    *)
(* budget-bounded scheduler runGEPA.                                       *)
(*                                                                         *)
(* Numbers that the code holds as floating point are held exactly:         *)
(*   - a score, an accuracy or an average length is a fraction             *)
(*     [num, den] and is compared by cross-multiplication;                 *)
(*   - config.minAccuracy is held in thousandths (700 is 0.7).             *)
(* A description is a sequence of one-character strings.                   *)
(***************************************************************************)
EXTENDS Integers, Sequences, FiniteSets, TLC

VARIABLES
    config,               \* GEPAConfig: testCases, tools, maxEvaluations, subsampleSize, minAccuracy
    pc,                   \* position of runGEPA (its awaits are the step boundaries)
    archive,              \* Archive: candidates (insertion-ordered map), parentOf
    perTaskPareto,        \* PerTaskPareto: taskFronts, dominanceCount
    totalEvaluations,     \* runGEPA local: budget consumed
    acceptedCount,        \* runGEPA local
    rejectedCount,        \* runGEPA local
    iteration,            \* runGEPA local
    parent,               \* runGEPA loop local: the selected parent
    offspring,            \* runGEPA loop local: the mutated candidate
    reflection,           \* mutateViaReflection locals while its reflect() call is pending
    subsample,            \* runGEPA loop local: the test cases drawn by sampleTestCases
    subsampleScore,       \* runGEPA loop local
    parentSubsampleScore, \* runGEPA loop local
    nextId,               \* source of fresh candidate ids (crypto.randomUUID)
    events,               \* progress events emitted since the last iteration_start (or since the start)
    ledger,               \* history: what the run has asked of the LLM gateway so far, and
                          \* where it stood when it was stopped
    lastOp,               \* history: the last operation applied to the Pareto index
    server,               \* handleStartOptimization / handleStopOptimization: the run's entry in
                          \* activeRuns, its AbortController and its stored status
    runs                  \* the gateway calls in progress: the limiter and the calls of each run of
                          \* the process, or the calls of one evaluateCandidate

vars == <<config, pc, archive, perTaskPareto, totalEvaluations, acceptedCount,
          rejectedCount, iteration, parent, offspring, reflection, subsample,
          subsampleScore, parentSubsampleScore, nextId, events, ledger, lastOp, server, runs>>

-----------------------------------------------------------------------------
(* Bounds of the model *)

MaxTests == 2        \* runs have 0..MaxTests test cases (besides the scenario configurations)
MaxBudget == 4       \* config.maxEvaluations ranges over 1..MaxBudget
MaxSubsample == 2    \* config.subsampleSize ranges over 1..MaxSubsample
MaxTasks == 4        \* the Pareto index is exercised on 1..MaxTasks test cases
MaxWidth == 2        \* config.maxConcurrentEvaluations ranges over 1..MaxWidth
MaxInserts == 2      \* ... with up to MaxInserts candidates inserted

-----------------------------------------------------------------------------
(* Values *)

Null == "null"

Rat(n, d) == [num |-> n, den |-> d]
RatLT(a, b) == a.num * b.den < b.num * a.den
RatEQ(a, b) == a.num * b.den = b.num * a.den
RatLE(a, b) == a.num * b.den <= b.num * a.den

Range(s) == {s[i] : i \in DOMAIN s}

RECURSIVE SumOver(_, _)
SumOver(s, i) == IF i > Len(s) THEN 0 ELSE s[i] + SumOver(s, i + 1)

\* Array.prototype.filter
RECURSIVE Filter(_, _, _)
Filter(s, Keep(_), i) ==
    IF i > Len(s) THEN <<>>
    ELSE (IF Keep(s[i]) THEN <<s[i]>> ELSE <<>>) \o Filter(s, Keep, i + 1)

\* Map.get(key) || 0
MapGetOr0(m, k) == IF k \in DOMAIN m THEN m[k] ELSE 0

\* Map.set(key, value)
MapSet(m, k, v) == [x \in (DOMAIN m) \cup {k} |-> IF x = k THEN v ELSE m[x]]

-----------------------------------------------------------------------------
(* Tools, test cases, candidates *)

ToolNames == <<"weather", "math">>

BaseTools ==
    << [id |-> "tool-1", name |-> "weather", description |-> <<"x">>,
        inputSchema |-> "schema-1", serverId |-> "server-1"],
       [id |-> "tool-2", name |-> "math", description |-> <<"y", "y", "y">>,
        inputSchema |-> "schema-2", serverId |-> "server-1"] >>

\* TestCase {id, expectedTool}; test i expects tool 1, 2, 1, 2, ...
MakeTestCases(n) ==
    [i \in 1..n |-> [id |-> i, expectedTool |-> ToolNames[((i - 1) % 2) + 1]]]

\* Candidate ids are 1, 2, ...; NoId stands for an id that is undefined
NoId == 0

NoCandidate == [id |-> NoId]

\* evaluator.ts: sum of description lengths / number of tools
AvgDescriptionLength(tools) ==
    Rat(SumOver([i \in 1..Len(tools) |-> Len(tools[i].description)], 1), Len(tools))

\* evaluateTestCase: the EvalResult for the tool the model selected
EvaluateTestCase(testCase, selectedTool) ==
    [testCaseId |-> testCase.id,
     selectedTool |-> selectedTool,
     expectedTool |-> testCase.expectedTool,
     correct |-> (selectedTool = testCase.expectedTool)]

\* Variant: every result is counted as correct
CorrectCountAll(evaluations) == Len(evaluations)

CorrectCount(evaluations) ==
    Len(Filter(evaluations, LAMBDA e : e.correct, 1))

\* evaluateCandidate: answers[i] is what evaluateWithTools returned for testCases[i]
EvaluateCandidate(candidate, testCases, answers) ==
    LET evaluations ==
            [i \in 1..Len(testCases) |-> EvaluateTestCase(testCases[i], answers[i])]
    IN  [id |-> candidate.id,
         tools |-> candidate.tools,
         accuracy |-> Rat(CorrectCount(evaluations), Len(evaluations)),
         avgDescriptionLength |-> AvgDescriptionLength(candidate.tools),
         evaluations |-> evaluations]

-----------------------------------------------------------------------------
(* Archive *)

CreateArchive == [candidates |-> <<>>, parentOf |-> <<>>]

ArchiveIds(a) == {a.candidates[i].id : i \in DOMAIN a.candidates}

\* archive.candidates.get(id), for an id of the archive
ArchiveGet(a, id) ==
    a.candidates[CHOOSE i \in DOMAIN a.candidates : a.candidates[i].id = id]

\* Variant: the new candidate takes the place of the entries held so far
AddToArchiveEvicting(a, candidate, parentId) ==
    [candidates |-> << candidate >>, parentOf |-> a.parentOf]

\* Variant: the candidate is not stored
AddToArchiveDropped(a, candidate, parentId) == a

\* Variant: the parent link is not stored
AddToArchiveUnlinked(a, candidate, parentId) ==
    [candidates |-> Append(a.candidates, candidate), parentOf |-> a.parentOf]

\* addToArchive: Map.set keeps the position of a key it already holds;
\* parentOf is set only for a truthy parentId
AddToArchive(a, candidate, parentId) ==
    [candidates |->
        IF candidate.id \in ArchiveIds(a)
        THEN [i \in DOMAIN a.candidates |->
                 IF a.candidates[i].id = candidate.id THEN candidate ELSE a.candidates[i]]
        ELSE Append(a.candidates, candidate),
     parentOf |->
        IF parentId # NoId THEN MapSet(a.parentOf, candidate.id, parentId)
        ELSE a.parentOf]

GetArchiveSize(a) == Len(a.candidates)

-----------------------------------------------------------------------------
(* Per-task Pareto index *)

\* createPerTaskPareto: one empty front (a Set, kept in insertion order) per test case
CreatePerTaskPareto(testCases) ==
    [taskFronts |-> [t \in {testCases[i].id : i \in DOMAIN testCases} |-> <<>>],
     dominanceCount |-> <<>>]

\* Variant: the length comparison is dropped (correctness alone decides)
DominatesOnTaskCorrectnessOnly(candidateA, candidateB, evaluationA, evaluationB) ==
    evaluationA.correct /\ ~evaluationB.correct

\* Variant: an equal length dominates too
DominatesOnTaskOrEqual(candidateA, candidateB, evaluationA, evaluationB) ==
    IF evaluationA.correct /\ ~evaluationB.correct THEN TRUE
    ELSE IF ~evaluationA.correct THEN FALSE
    ELSE RatLE(candidateA.avgDescriptionLength, candidateB.avgDescriptionLength)

DominatesOnTask(candidateA, candidateB, evaluationA, evaluationB) ==
    IF evaluationA.correct /\ ~evaluationB.correct THEN TRUE
    ELSE IF ~evaluationA.correct THEN FALSE
    ELSE RatLT(candidateA.avgDescriptionLength, candidateB.avgDescriptionLength)

\* existing.evaluations.find(e => e.testCaseId === testCaseId): its index, 0 if none
FindEvaluation(candidate, testCaseId) ==
    IF \E i \in DOMAIN candidate.evaluations :
           candidate.evaluations[i].testCaseId = testCaseId
    THEN CHOOSE i \in DOMAIN candidate.evaluations :
           /\ candidate.evaluations[i].testCaseId = testCaseId
           /\ \A j \in 1..(i - 1) : candidate.evaluations[j].testCaseId # testCaseId
    ELSE 0

\* The inner loop of updatePerTaskPareto over Array.from(front), from position i:
\* collects toRemove and stops at the first member that dominates newCandidate.
RECURSIVE ScanFront(_, _, _, _, _, _)
ScanFront(front, i, newCandidate, evaluation, a, toRemove) ==
    IF i > Len(front) THEN [isDominated |-> FALSE, toRemove |-> toRemove]
    ELSE
      LET existingId == front[i] IN
      IF existingId \notin ArchiveIds(a)
      THEN ScanFront(front, i + 1, newCandidate, evaluation, a, toRemove)
      ELSE
        LET existing == ArchiveGet(a, existingId)
            k == FindEvaluation(existing, evaluation.testCaseId)
        IN  IF k = 0
            THEN ScanFront(front, i + 1, newCandidate, evaluation, a, toRemove)
            ELSE IF DominatesOnTask(newCandidate, existing, evaluation, existing.evaluations[k])
            THEN ScanFront(front, i + 1, newCandidate, evaluation, a,
                           Append(toRemove, existingId))
            ELSE IF DominatesOnTask(existing, newCandidate, existing.evaluations[k], evaluation)
            THEN [isDominated |-> TRUE, toRemove |-> toRemove]
            ELSE ScanFront(front, i + 1, newCandidate, evaluation, a, toRemove)

\* Variant: the removed members keep their counts
DecrementNone(dominanceCount, toRemove, i) == dominanceCount

\* for (const id of toRemove) dominanceCount.set(id, (get(id) || 0) - 1)
RECURSIVE DecrementAll(_, _, _)
DecrementAll(dominanceCount, toRemove, i) ==
    IF i > Len(toRemove) THEN dominanceCount
    ELSE DecrementAll(
            MapSet(dominanceCount, toRemove[i], MapGetOr0(dominanceCount, toRemove[i]) - 1),
            toRemove, i + 1)

\* Variant: the newcomer is not added to the front
SetAddNever(front, id) == front

\* Set.add: appends unless present
SetAdd(front, id) == IF id \in Range(front) THEN front ELSE Append(front, id)

\* Set.delete of every id of toRemove
SetDeleteAll(front, toRemove) ==
    Filter(front, LAMBDA id : id \notin Range(toRemove), 1)

\* The count updatePerTaskPareto stores for newCandidate when it joins a front:
\* (dominanceCount.get(newCandidate.id) || 0) + 1
JoinCount(dominanceCount, id) == MapGetOr0(dominanceCount, id) + 1

\* The body of updatePerTaskPareto's outer loop for one evaluation of newCandidate
UpdateTask(pareto, newCandidate, evaluation, a) ==
    LET testCaseId == evaluation.testCaseId IN
    IF testCaseId \notin DOMAIN pareto.taskFronts THEN pareto
    ELSE
      LET front == pareto.taskFronts[testCaseId]
          scan == ScanFront(front, 1, newCandidate, evaluation, a, <<>>)
      IN  IF scan.isDominated THEN pareto
          ELSE
            LET kept == SetDeleteAll(front, scan.toRemove)
                counts == DecrementAll(pareto.dominanceCount, scan.toRemove, 1)
            IN  [taskFronts |->
                    [pareto.taskFronts EXCEPT ![testCaseId] = SetAdd(kept, newCandidate.id)],
                 dominanceCount |->
                    MapSet(counts, newCandidate.id,
                           JoinCount(counts, newCandidate.id))]

RECURSIVE UpdateFrom(_, _, _, _)
UpdateFrom(pareto, newCandidate, a, i) ==
    IF i > Len(newCandidate.evaluations) THEN pareto
    ELSE UpdateFrom(UpdateTask(pareto, newCandidate, newCandidate.evaluations[i], a),
                    newCandidate, a, i + 1)

\* updatePerTaskPareto(pareto, newCandidate, archive)
UpdatePerTaskPareto(pareto, newCandidate, a) == UpdateFrom(pareto, newCandidate, a, 1)

-----------------------------------------------------------------------------
(* The LLM gateway and the random source, as bounded sets of outcomes *)

\* How one generateText call of evaluateWithTools can end: with a call of one of
\* the tools, with no tool call, or with an exception
GatewayOutcomes == Range(ToolNames) \cup {"no_tool_call", "error"}

\* Variant: the exception of generateText is not caught
EvaluateWithToolsUncaught(outcome) ==
    IF outcome = "no_tool_call" THEN Null ELSE outcome

\* evaluateWithTools: toolCall?.toolName || null, and null from the catch
EvaluateWithTools(outcome) ==
    IF outcome \in {"no_tool_call", "error"} THEN Null ELSE outcome

\* What evaluateWithTools can return for one query: a tool name or null
Selections == {EvaluateWithTools(outcome) : outcome \in GatewayOutcomes}

\* All sequences of length n over S
RECURSIVE SeqsOf(_, _)
SeqsOf(S, n) ==
    IF n = 0 THEN {<<>>}
    ELSE {Append(s, x) : s \in SeqsOf(S, n - 1), x \in S}

\* Answers that are right on the first k test cases and null on the others
PrefixAnswers(testCases, k) ==
    [i \in 1..Len(testCases) |-> IF i <= k THEN testCases[i].expectedTool ELSE Null]

\* The answers of the gateway to the queries of testCases: every combination for the
\* small test sets, the prefix family for the scenario configurations
GatewayAnswers(testCases) ==
    IF Len(testCases) <= MaxTests
    THEN SeqsOf(Selections, Len(testCases))
    ELSE {PrefixAnswers(testCases, k) : k \in 0..Len(testCases)}

\* The answers used to exercise the Pareto index: right or null on each test case
RightOrNullAnswers(testCases) ==
    {[i \in 1..Len(testCases) |-> IF i \in right THEN testCases[i].expectedTool ELSE Null] :
        right \in SUBSET (1..Len(testCases))}

Min(a, b) == IF a < b THEN a ELSE b

\* The sub-sequence of s at the positions of idx, in order
Pick(s, idx) == Filter(s, LAMBDA tc : \E i \in idx : s[i] = tc, 1)

\* Variant: the first test case is drawn again and again
SampleTestCasesRepeated(testCases, subsampleSize) ==
    {[i \in 1..Min(subsampleSize, Len(testCases)) |-> testCases[1]]}

\* sampleTestCases: a random shuffle cut to min(subsampleSize, length). The order of
\* the subsample is never read, so each outcome is kept in test-case order. Every
\* k-subset for the small test sets, the windows i..i+k-1 for the scenario ones.
SampleTestCases(testCases, subsampleSize) ==
    LET n == Len(testCases)
        k == Min(subsampleSize, n)
    IN  IF n <= MaxTests
        THEN {Pick(testCases, idx) : idx \in {x \in SUBSET (1..n) : Cardinality(x) = k}}
        ELSE {Pick(testCases, i..(i + k - 1)) : i \in 1..(n - k + 1)}

\* evaluateOnSubsample: correctCount / results.length
EvaluateOnSubsample(subsampleCases, answers) ==
    Rat(CorrectCount([i \in 1..Len(subsampleCases) |->
                         EvaluateTestCase(subsampleCases[i], answers[i])]),
        Len(subsampleCases))

\* Variant: the parent's accuracy on the whole test set is taken
GetParentAccuracy(parentCandidate, subsampleCases) == parentCandidate.accuracy

\* getParentSubsampleScore
GetParentSubsampleScore(parentCandidate, subsampleCases) ==
    LET subsampleIds == {subsampleCases[i].id : i \in DOMAIN subsampleCases}
        relevantEvaluations ==
            Filter(parentCandidate.evaluations,
                   LAMBDA e : e.testCaseId \in subsampleIds, 1)
    IN  IF Len(relevantEvaluations) = 0 THEN Rat(0, 1)
        ELSE Rat(CorrectCount(relevantEvaluations), Len(relevantEvaluations))

\* What reflect() can return before trim()
ReflectReplies == { <<" ", "z">> }

IsSpace(c) == c = " "

RECURSIVE TrimStart(_)
TrimStart(s) == IF s # <<>> /\ IsSpace(Head(s)) THEN TrimStart(Tail(s)) ELSE s

RECURSIVE TrimEnd(_)
TrimEnd(s) ==
    IF s # <<>> /\ IsSpace(s[Len(s)]) THEN TrimEnd(SubSeq(s, 1, Len(s) - 1)) ELSE s

\* String.prototype.trim
Trim(s) == TrimEnd(TrimStart(s))

-----------------------------------------------------------------------------
(* runGEPA: parent selection and the acceptance check *)

\* selectParentWeighted: the ids whose dominance count is positive
CandidatesWithCounts(pareto) ==
    {id \in DOMAIN pareto.dominanceCount : pareto.dominanceCount[id] > 0}

\* selectParentWeighted: every weight exp(count / T) is positive, so each id with a
\* positive count can be drawn (archive.candidates.get(id) ?? null); with no such
\* id the fallback draws uniformly from the archive, null if it is empty
SelectParentWeighted(pareto, a) ==
    IF CandidatesWithCounts(pareto) = {}
    THEN IF GetArchiveSize(a) = 0 THEN {Null} ELSE Range(a.candidates)
    ELSE {IF id \in ArchiveIds(a) THEN ArchiveGet(a, id) ELSE Null :
            id \in CandidatesWithCounts(pareto)}

\* Variant: the accuracy filter is skipped
SelectParentUnfiltered(a, minAccuracy) == Range(a.candidates)

\* selectParentWeightedByGlobalScore: every weight exp(score / T) is positive, so
\* each candidate of the filtered list (or of the whole archive when the filter
\* leaves none) can be drawn; the set of the candidates it can return.
SelectParentWeightedByGlobalScore(a, minAccuracy) ==
    LET candidates == Range(a.candidates)
        qualifiedCandidates ==
            {c \in candidates : c.accuracy.num * 1000 >= minAccuracy * c.accuracy.den}
    IN  IF qualifiedCandidates # {} THEN qualifiedCandidates ELSE candidates

\* accuracyWorse: subsampleScore < parentSubsampleScore - 0.001
AccuracyWorse(score, parentScore) ==
    1000 * score.num * parentScore.den
        < 1000 * parentScore.num * score.den - score.den * parentScore.den

\* belowMinAccuracy: subsampleScore < minAccuracyThreshold
BelowMinAccuracy(score, minAccuracy) == score.num * 1000 < minAccuracy * score.den

\* Variant: the floor is not consulted
RejectsOnlyWorse(score, parentScore, minAccuracy) ==
    AccuracyWorse(score, parentScore)

\* Variant: a tie with the parent is rejected too
RejectsTies(score, parentScore, minAccuracy) ==
    \/ score.num * parentScore.den <= parentScore.num * score.den
    \/ BelowMinAccuracy(score, minAccuracy)

\* if (accuracyWorse || belowMinAccuracy)
Rejects(score, parentScore, minAccuracy) ==
    AccuracyWorse(score, parentScore) \/ BelowMinAccuracy(score, minAccuracy)

\* (x * 100).toFixed(0)
Percent(r) == (200 * r.num + r.den) \div (2 * r.den)

\* the rejection reason: its wording and the two percentages it quotes
RejectionReason(score, parentScore, minAccuracy) ==
    IF BelowMinAccuracy(score, minAccuracy)
    THEN [text |-> "Below minimum accuracy", score |-> Percent(score),
          against |-> Percent(Rat(minAccuracy, 1000))]
    ELSE [text |-> "Lower accuracy", score |-> Percent(score),
          against |-> Percent(parentScore)]

\* Variant: the loop test is <=
BudgetLeftInclusive(consumed, maxEvaluations) == consumed <= maxEvaluations

\* while (totalEvaluations < config.maxEvaluations)
BudgetLeft(consumed, maxEvaluations) == consumed < maxEvaluations

\* Variant: the subsample is not charged
ChargeSubsampleNever(consumed, subsampleCases) == consumed

\* Variant: the subsample is charged twice
ChargeSubsampleTwice(consumed, subsampleCases) == consumed + 2 * Len(subsampleCases)

\* totalEvaluations += subsample.length
ChargeSubsample(consumed, subsampleCases) == consumed + Len(subsampleCases)

\* Variant: the full evaluation is not charged
ChargeNothing(consumed, testCases) == consumed

\* Variant: the counter is advanced by two
IncrementTwice(counter) == counter + 2

\* acceptedCount++, rejectedCount++
Increment(counter) == counter + 1

\* totalEvaluations += config.testCases.length
ChargeFullEvaluation(consumed, testCases) == consumed + Len(testCases)

-----------------------------------------------------------------------------
(* Configurations *)

MakeConfig(n, maxEvaluations, subsampleSize, minAccuracy) ==
    [testCases |-> MakeTestCases(n),
     tools |-> BaseTools,
     maxEvaluations |-> maxEvaluations,
     subsampleSize |-> subsampleSize,
     minAccuracy |-> minAccuracy]

\* minAccuracy in thousandths: no floor, and the README's 0.7
MinAccuracies == {0, 700}

\* Scenario S3 (10 test cases, budget 25, subsample 5) and scenario S6
\* (floor 0.7, subsample of 5)
ScenarioConfigs ==
    { MakeConfig(10, 25, 5, 0), MakeConfig(5, 12, 5, 700) }

Configs ==
    { MakeConfig(n, m, k, a) :
        n \in 0..MaxTests, m \in 1..MaxBudget, k \in 1..MaxSubsample, a \in MinAccuracies }
    \cup ScenarioConfigs

NoScore == Rat(0, 0)
NoReflection == [tool |-> Null]

Emit(log, event) == Append(log, event)

\* Variant: only the first result of a candidate is announced
EvaluationEventsFirstOnly(candidate, evaluations) ==
    [type |-> "evaluation", candidateId |-> candidate.id,
     results |-> { [testCase |-> evaluations[i].testCaseId,
                    correct |-> evaluations[i].correct,
                    selected |-> evaluations[i].selectedTool,
                    expected |-> evaluations[i].expectedTool] :
                   i \in (DOMAIN evaluations) \cap {1} }]

\* evaluateCandidate: each task emits its evaluation event when its call returns,
\* while runGEPA waits for Promise.all and emits nothing.  The events of one
\* Promise.all are held as one entry of the log, in no particular order
\* (testCase.query is held as the test case's id).
EvaluationEvents(candidate, evaluations) ==
    [type |-> "evaluation", candidateId |-> candidate.id,
     results |-> { [testCase |-> evaluations[i].testCaseId,
                    correct |-> evaluations[i].correct,
                    selected |-> evaluations[i].selectedTool,
                    expected |-> evaluations[i].expectedTool] : i \in DOMAIN evaluations }]

\* The number of evaluation events held by a piece of the log
NumEvaluationEvents(log) ==
    SumOver([i \in DOMAIN log |->
                IF log[i].type = "evaluation" THEN Cardinality(log[i].results) ELSE 0], 1)

\* Variant: the stream opens without optimization_start
OptimizationStartOmitted == << >>

\* handleStartOptimization: the stream opens with optimization_start
OptimizationStartEvents == << [type |-> "optimization_start"] >>

\* runGEPA: what is emitted once the baseline is evaluated (its evaluation events
\* were emitted by evaluateCandidate during the wait)
BaselineEvents(originalEval, testCases) ==
    << EvaluationEvents(originalEval, originalEval.evaluations),
       [type |-> "candidate_done", candidateId |-> originalEval.id,
        generation |-> 0, accuracy |-> originalEval.accuracy,
        isPareto |-> TRUE, status |-> "accepted", parentId |-> NoId],
       [type |-> "archive_update", archiveSize |-> 1,
        totalEvaluations |-> Len(testCases),
        acceptedCount |-> 1, rejectedCount |-> 0] >>

\* Variant of the rejection branch: the iteration is left without iteration_done
RejectionEventsWithoutDone(child, par, iter, reason, score, consumed, archiveSize) ==
    << [type |-> "candidate_done", candidateId |-> child.id,
        generation |-> iter, accuracy |-> score,
        isPareto |-> FALSE, status |-> "rejected",
        rejectionReason |-> reason, parentId |-> par.id],
       [type |-> "offspring_rejected", candidateId |-> child.id,
        reason |-> reason, iteration |-> iter] >>

\* Variant of the rejection branch: offspring_rejected comes before candidate_done
RejectionEventsSwapped(child, par, iter, reason, score, consumed, archiveSize) ==
    << [type |-> "offspring_rejected", candidateId |-> child.id,
        reason |-> reason, iteration |-> iter],
       [type |-> "candidate_done", candidateId |-> child.id,
        generation |-> iter, accuracy |-> score,
        isPareto |-> FALSE, status |-> "rejected",
        rejectionReason |-> reason, parentId |-> par.id],
       [type |-> "iteration_done", iteration |-> iter,
        totalEvaluations |-> consumed, archiveSize |-> archiveSize] >>

\* runGEPA: what the rejection branch emits
RejectionEvents(child, par, iter, reason, score, consumed, archiveSize) ==
    << [type |-> "candidate_done", candidateId |-> child.id,
        generation |-> iter, accuracy |-> score,
        isPareto |-> FALSE, status |-> "rejected",
        rejectionReason |-> reason, parentId |-> par.id],
       [type |-> "offspring_rejected", candidateId |-> child.id,
        reason |-> reason, iteration |-> iter],
       [type |-> "iteration_done", iteration |-> iter,
        totalEvaluations |-> consumed, archiveSize |-> archiveSize] >>

\* Variant of the accepted iteration: archive_update is left out
AcceptanceEventsWithoutUpdate(offspringEval, par, iter, consumed, archiveSize, accepted, rejected) ==
    << EvaluationEvents(offspringEval, offspringEval.evaluations),
       [type |-> "candidate_done", candidateId |-> offspringEval.id,
        generation |-> iter, accuracy |-> offspringEval.accuracy,
        isPareto |-> TRUE, status |-> "accepted", parentId |-> par.id],
       [type |-> "offspring_accepted", candidateId |-> offspringEval.id,
        accuracy |-> offspringEval.accuracy,
        archiveIndex |-> archiveSize,
        parentId |-> par.id, iteration |-> iter],
       [type |-> "iteration_done", iteration |-> iter,
        totalEvaluations |-> consumed, archiveSize |-> archiveSize] >>

\* runGEPA: what is emitted once the offspring is fully evaluated, archived and
\* indexed (its evaluation events were emitted during the wait)
AcceptanceEvents(offspringEval, par, iter, consumed, archiveSize, accepted, rejected) ==
    << EvaluationEvents(offspringEval, offspringEval.evaluations),
       [type |-> "candidate_done", candidateId |-> offspringEval.id,
        generation |-> iter, accuracy |-> offspringEval.accuracy,
        isPareto |-> TRUE, status |-> "accepted", parentId |-> par.id],
       [type |-> "offspring_accepted", candidateId |-> offspringEval.id,
        accuracy |-> offspringEval.accuracy,
        archiveIndex |-> archiveSize,
        parentId |-> par.id, iteration |-> iter],
       [type |-> "archive_update", archiveSize |-> archiveSize,
        totalEvaluations |-> consumed,
        acceptedCount |-> accepted, rejectedCount |-> rejected],
       [type |-> "iteration_done", iteration |-> iter,
        totalEvaluations |-> consumed, archiveSize |-> archiveSize] >>

\* History of a run that has not asked anything yet and has not been stopped
EmptyLedger ==
    [subsampled |-> 0, fullEvaluated |-> 0, reflectCalls |-> 0, evaluationEvents |-> 0,
     stop |-> [requested |-> FALSE, atLoopHead |-> FALSE, archiveSize |-> 0]]

\* handleStartOptimization / handleStopOptimization: a run that has not been started
NoRun == [active |-> FALSE, aborted |-> FALSE, status |-> "none", error |-> Null]

\* runGEPA validation: the message of the Error thrown for an empty test set
NoTestCasesMessage == "GEPA requires test cases"

\* Variant: every configuration is let through
ValidConfigAlways(cfg) == TRUE

\* runGEPA validation: config.testCases.length === 0 throws
ValidConfig(cfg) == Len(cfg.testCases) # 0

\* Variant: the catch stores the run as completed
StoredStatusAlwaysCompleted(threw) == "completed"

\* handleStartOptimization: the status stored after runGEPA returned, or in the catch
StoredStatus(threw) == IF threw THEN "failed" ELSE "completed"

-----------------------------------------------------------------------------
(* runGEPA *)

Init ==
    /\ config \in Configs
    /\ pc = "start"
    /\ archive = CreateArchive
    /\ perTaskPareto = CreatePerTaskPareto(<<>>)
    /\ totalEvaluations = 0
    /\ acceptedCount = 0
    /\ rejectedCount = 0
    /\ iteration = 0
    /\ parent = NoCandidate
    /\ offspring = NoCandidate
    /\ reflection = NoReflection
    /\ subsample = <<>>
    /\ subsampleScore = NoScore
    /\ parentSubsampleScore = NoScore
    /\ nextId = 1
    /\ events = <<>>
    /\ ledger = EmptyLedger
    /\ lastOp = "none"
    /\ server = NoRun
    /\ runs = <<>>

\* handleStartOptimization stores the run as running, registers its AbortController
\* and sends optimization_start; runGEPA then runs up to its first await:
\* validation, createArchive, createPerTaskPareto
Start ==
    /\ pc = "start"
    /\ server' = [active |-> TRUE, aborted |-> FALSE, status |-> "running",
                  error |-> IF ~ValidConfig(config) THEN NoTestCasesMessage ELSE Null]
    /\ events' = events \o OptimizationStartEvents
    /\ IF ~ValidConfig(config)
       THEN /\ pc' = "threw"
            /\ UNCHANGED <<archive, perTaskPareto>>
       ELSE /\ pc' = "eval_original"
            /\ archive' = CreateArchive
            /\ perTaskPareto' = CreatePerTaskPareto(config.testCases)
    /\ UNCHANGED <<config, totalEvaluations, acceptedCount, rejectedCount, iteration,
                   parent, offspring, reflection, subsample, subsampleScore,
                   parentSubsampleScore, nextId, ledger, lastOp, runs>>

\* evaluateCandidate(original) returns; the baseline is archived and indexed
EvaluateOriginal ==
    /\ pc = "eval_original"
    /\ \E answers \in GatewayAnswers(config.testCases) :
         LET original == [id |-> nextId, tools |-> config.tools]
             originalEval == EvaluateCandidate(original, config.testCases, answers)
             archive1 == AddToArchive(archive, originalEval, NoId)
         IN  /\ archive' = archive1
             /\ perTaskPareto' = UpdatePerTaskPareto(perTaskPareto, originalEval, archive1)
             /\ events' = events \o BaselineEvents(originalEval, config.testCases)
    /\ totalEvaluations' = Len(config.testCases)
    /\ acceptedCount' = 1
    /\ rejectedCount' = 0
    /\ iteration' = 0
    /\ nextId' = nextId + 1
    /\ lastOp' = "insert"
    /\ UNCHANGED <<server, runs>>
    /\ pc' = "loop"
    /\ ledger' = [ledger EXCEPT !.evaluationEvents =
                     @ + NumEvaluationEvents(events') - NumEvaluationEvents(events)]
    /\ UNCHANGED <<config, parent, offspring, reflection, subsample, subsampleScore,
                   parentSubsampleScore>>

\* The loop test holds: iteration_start, parent selection, mutation_start, and
\* the call of mutateViaReflection
IterationStart ==
    /\ pc = "loop"
    /\ BudgetLeft(totalEvaluations, config.maxEvaluations)
    /\ iteration' = iteration + 1
    /\ IF GetArchiveSize(archive) = 0
       THEN \* selectParentWeightedByGlobalScore returned null: break
            /\ pc' = "complete"
            /\ parent' = NoCandidate
            /\ events' = <<[type |-> "iteration_start", iteration |-> iteration + 1,
                            totalEvaluations |-> totalEvaluations]>>
       ELSE \E p \in SelectParentWeightedByGlobalScore(archive, config.minAccuracy) :
            /\ parent' = p
            /\ pc' = "mutate"
            /\ events' =
                 <<[type |-> "iteration_start", iteration |-> iteration + 1,
                    totalEvaluations |-> totalEvaluations],
                   [type |-> "parent_selected", candidateId |-> p.id,
                    iteration |-> iteration + 1],
                   [type |-> "mutation_start", candidateId |-> p.id]>>
    /\ UNCHANGED <<config, archive, perTaskPareto, totalEvaluations, acceptedCount,
                   rejectedCount, offspring, reflection, subsample, subsampleScore,
                   parentSubsampleScore, nextId, ledger, lastOp, server, runs>>

\* The loop test fails
LoopExit ==
    /\ pc = "loop"
    /\ ~BudgetLeft(totalEvaluations, config.maxEvaluations)
    /\ pc' = "complete"
    /\ UNCHANGED <<config, archive, perTaskPareto, totalEvaluations, acceptedCount,
                   rejectedCount, iteration, parent, offspring, reflection, subsample,
                   subsampleScore, parentSubsampleScore, nextId, events, ledger, lastOp, server, runs>>

\* After the loop: optimization_complete, return archive
Complete ==
    /\ pc = "complete"
    /\ pc' = "done"
    /\ events' = Emit(events,
          [type |-> "optimization_complete", archiveSize |-> GetArchiveSize(archive),
           totalEvaluations |-> totalEvaluations, acceptedCount |-> acceptedCount,
           rejectedCount |-> rejectedCount])
    /\ UNCHANGED <<config, archive, perTaskPareto, totalEvaluations, acceptedCount,
                   rejectedCount, iteration, parent, offspring, reflection, subsample,
                   subsampleScore, parentSubsampleScore, nextId, ledger, lastOp, server, runs>>

\* handleStartOptimization after runGEPA has returned or thrown: the run's status
\* is stored (completed, or failed from the catch)
HandlerStoresStatus ==
    /\ pc \in {"done", "threw"}
    /\ pc' = IF pc = "done" THEN "completed_stored" ELSE "failed_stored"
    /\ server' = [server EXCEPT !.status = StoredStatus(pc = "threw")]
    /\ UNCHANGED <<config, archive, perTaskPareto, totalEvaluations, acceptedCount,
                   rejectedCount, iteration, parent, offspring, reflection, subsample,
                   subsampleScore, parentSubsampleScore, nextId, events, ledger, lastOp,
                   runs>>

\* handleStartOptimization once the status is stored: the catch sends the error
\* event; the stream is closed and the run leaves activeRuns
HandlerCloses ==
    /\ pc \in {"completed_stored", "failed_stored"}
    /\ pc' = "closed"
    /\ events' = IF pc = "failed_stored"
                  THEN Emit(events, [type |-> "error", message |-> server.error])
                  ELSE events
    /\ server' = [server EXCEPT !.active = FALSE]
    /\ UNCHANGED <<config, archive, perTaskPareto, totalEvaluations, acceptedCount,
                   rejectedCount, iteration, parent, offspring, reflection, subsample,
                   subsampleScore, parentSubsampleScore, nextId, ledger, lastOp, runs>>

\* handleStopOptimization for a run found in activeRuns: abort() is called, the run
\* is removed from activeRuns and its status is stored as completed; runGEPA holds
\* no reference to the AbortController
HandleStopOptimization ==
    /\ server.active
    /\ server' = [server EXCEPT !.active = FALSE, !.aborted = TRUE, !.status = "completed"]
    /\ ledger' = [ledger EXCEPT !.stop = [requested |-> TRUE, atLoopHead |-> (pc = "loop"),
                                          archiveSize |-> GetArchiveSize(archive)]]
    /\ UNCHANGED <<config, pc, archive, perTaskPareto, totalEvaluations, acceptedCount,
                   rejectedCount, iteration, parent, offspring, reflection, subsample,
                   subsampleScore, parentSubsampleScore, nextId, events, lastOp,
                   runs>>

\* The block-scoped locals of one iteration, once the iteration is over
IterationLocalsReset ==
    /\ parent' = NoCandidate
    /\ offspring' = NoCandidate
    /\ subsample' = <<>>
    /\ subsampleScore' = NoScore
    /\ parentSubsampleScore' = NoScore

\* mutateViaReflection has returned child: runGEPA draws the subsample and calls
\* evaluateOnSubsample
MutationReturns(child) ==
    /\ offspring' = child
    /\ subsample' \in SampleTestCases(config.testCases, config.subsampleSize)
    /\ pc' = "subsample"

\* candidate.tools.find(t => t.name === name): its index, 0 if none
FindTool(tools, name) ==
    IF \E i \in DOMAIN tools : tools[i].name = name
    THEN CHOOSE i \in DOMAIN tools :
            /\ tools[i].name = name
            /\ \A j \in 1..(i - 1) : tools[j].name # name
    ELSE 0

\* testCases.find(tc => tc.id === id) finds one
HasTestCase(testCases, id) == \E i \in DOMAIN testCases : testCases[i].id = id

\* Variant: every tool gets the new description
RewriteToolAll(tools, name, description) ==
    [i \in DOMAIN tools |-> [tools[i] EXCEPT !.description = description]]

\* candidate.tools.map(t => t.name === name ? {...t, description} : t)
RewriteTool(tools, name, description) ==
    [i \in DOMAIN tools |->
        IF tools[i].name = name THEN [tools[i] EXCEPT !.description = description]
        ELSE tools[i]]

\* The query of a test case, as a string
QueryOf(testCaseId) == ToString(testCaseId)

\* mutateViaReflection: the query field of reflection_start on the conciseness path
ConcisenessQuery == "Optimizing for conciseness"

\* Variant: no result is taken as a failure
FailuresNone(candidate) == << >>

\* mutateViaReflection: candidate.evaluations.filter(e => !e.correct)
Failures(candidate) == Filter(candidate.evaluations, LAMBDA e : ~e.correct, 1)

\* Variant: the catch hands the parent back under its own id
UnchangedCopySameId(candidate, id) == [id |-> candidate.id, tools |-> candidate.tools]

\* mutateViaReflection: {id: crypto.randomUUID(), tools: candidate.tools}
UnchangedCopy(candidate, id) == [id |-> id, tools |-> candidate.tools]

\* mutateViaReflection up to its await of reflect(): the conciseness path for a
\* parent without failures, the failure-directed path otherwise
MutateStart ==
    /\ pc = "mutate"
    /\ LET failures == Failures(parent)
           unchanged == UnchangedCopy(parent, nextId)
       IN  IF Len(failures) = 0
           THEN IF Len(parent.tools) = 0
                THEN /\ MutationReturns(unchanged)
                     /\ nextId' = nextId + 1
                     /\ UNCHANGED <<reflection, events, ledger>>
                ELSE \E j \in DOMAIN parent.tools :
                     /\ reflection' = [tool |-> parent.tools[j].name,
                                       oldDesc |-> parent.tools[j].description,
                                       mode |-> "conciseness"]
                     /\ events' = Emit(events,
                           [type |-> "reflection_start", candidateId |-> parent.id,
                            tool |-> parent.tools[j].name,
                            failure |-> [query |-> ConcisenessQuery, selected |-> Null,
                                         expected |-> parent.tools[j].name]])
                     /\ ledger' = [ledger EXCEPT !.reflectCalls = @ + 1]
                     /\ pc' = "reflect"
                     /\ UNCHANGED <<offspring, subsample, nextId>>
           ELSE \E f \in DOMAIN failures :
                LET failure == failures[f]
                    t == FindTool(parent.tools, failure.expectedTool)
                IN  IF t = 0 \/ ~HasTestCase(config.testCases, failure.testCaseId)
                    THEN /\ MutationReturns(unchanged)
                         /\ nextId' = nextId + 1
                         /\ UNCHANGED <<reflection, events, ledger>>
                    ELSE /\ reflection' = [tool |-> parent.tools[t].name,
                                           oldDesc |-> parent.tools[t].description,
                                           mode |-> "failure"]
                         /\ events' = Emit(events,
                               [type |-> "reflection_start", candidateId |-> parent.id,
                                tool |-> parent.tools[t].name,
                                failure |-> [query |-> QueryOf(failure.testCaseId),
                                             selected |-> failure.selectedTool,
                                             expected |-> failure.expectedTool]])
                         /\ ledger' = [ledger EXCEPT !.reflectCalls = @ + 1]
                         /\ pc' = "reflect"
                         /\ UNCHANGED <<offspring, subsample, nextId>>
    /\ UNCHANGED <<config, archive, perTaskPareto, totalEvaluations, acceptedCount,
                   rejectedCount, iteration, parent, subsampleScore,
                   parentSubsampleScore, lastOp, server, runs>>

\* Variant: nothing is emitted when reflect() has resolved
ReflectionDoneOmitted(candidate, refl, newDescription) == << >>

\* mutateViaReflection: what is emitted when reflect() has resolved
ReflectionDoneEvents(candidate, refl, newDescription) ==
    << [type |-> "reflection_done", candidateId |-> candidate.id,
        tool |-> refl.tool, oldDesc |-> refl.oldDesc,
        newDesc |-> newDescription] >>

\* reflect() resolves: reflection_done, the tool rewritten with the trimmed reply
ReflectReturns ==
    /\ pc = "reflect"
    /\ \E reply \in ReflectReplies :
         /\ events' = events \o ReflectionDoneEvents(parent, reflection, Trim(reply))
         /\ MutationReturns([id |-> nextId,
                             tools |-> RewriteTool(parent.tools, reflection.tool, Trim(reply))])
    /\ nextId' = nextId + 1
    /\ reflection' = NoReflection
    /\ UNCHANGED <<config, archive, perTaskPareto, totalEvaluations, acceptedCount,
                   rejectedCount, iteration, parent, subsampleScore,
                   parentSubsampleScore, ledger, lastOp, server, runs>>

\* reflect() rejects: the catch returns the parent's tools under a new id
ReflectFails ==
    /\ pc = "reflect"
    /\ MutationReturns(UnchangedCopy(parent, nextId))
    /\ nextId' = nextId + 1
    /\ reflection' = NoReflection
    /\ UNCHANGED <<config, archive, perTaskPareto, totalEvaluations, acceptedCount,
                   rejectedCount, iteration, parent, subsampleScore,
                   parentSubsampleScore, events, ledger, lastOp, server, runs>>

\* evaluateOnSubsample returns: the budget is charged, subsample_eval is emitted,
\* and the acceptance check either rejects the offspring (the iteration ends with
\* continue) or calls evaluateCandidate for the full evaluation
SubsampleReturns ==
    /\ pc = "subsample"
    /\ \E answers \in GatewayAnswers(subsample) :
         LET score == EvaluateOnSubsample(subsample, answers)
             parentScore == GetParentSubsampleScore(parent, subsample)
             consumed == ChargeSubsample(totalEvaluations, subsample)
             evalEvent == [type |-> "subsample_eval", candidateId |-> offspring.id,
                           iteration |-> iteration, subsampleScore |-> score,
                           parentSubsampleScore |-> parentScore,
                           subsampleSize |-> Len(subsample)]
         IN  /\ totalEvaluations' = consumed
             /\ IF Rejects(score, parentScore, config.minAccuracy)
                THEN /\ rejectedCount' = Increment(rejectedCount)
                     /\ events' =
                          events \o << evalEvent >> \o
                          RejectionEvents(offspring, parent, iteration,
                              RejectionReason(score, parentScore, config.minAccuracy),
                              score, consumed, GetArchiveSize(archive))
                     /\ IterationLocalsReset
                     /\ pc' = "loop"
                ELSE /\ events' =
                          events \o
                          << evalEvent,
                             [type |-> "candidate_start", candidateId |-> offspring.id,
                              iteration |-> iteration] >>
                     /\ subsampleScore' = score
                     /\ parentSubsampleScore' = parentScore
                     /\ pc' = "full_eval"
                     /\ UNCHANGED <<rejectedCount, parent, offspring, subsample>>
    /\ ledger' = [ledger EXCEPT
                     !.subsampled = @ + Len(subsample),
                     !.evaluationEvents =
                        @ + NumEvaluationEvents(events') - NumEvaluationEvents(events)]
    /\ UNCHANGED <<config, archive, perTaskPareto, acceptedCount, iteration,
                   reflection, nextId, lastOp, server, runs>>

\* evaluateCandidate(offspring) returns: the budget is charged, the offspring is
\* archived under its parent and indexed, and the iteration ends
FullEvaluationReturns ==
    /\ pc = "full_eval"
    /\ \E answers \in GatewayAnswers(config.testCases) :
         LET offspringEval == EvaluateCandidate(offspring, config.testCases, answers)
             consumed == ChargeFullEvaluation(totalEvaluations, config.testCases)
             archive1 == AddToArchive(archive, offspringEval, parent.id)
         IN  /\ totalEvaluations' = consumed
             /\ archive' = archive1
             /\ perTaskPareto' = UpdatePerTaskPareto(perTaskPareto, offspringEval, archive1)
             /\ events' =
                  events \o
                  AcceptanceEvents(offspringEval, parent, iteration, consumed,
                                   GetArchiveSize(archive1), Increment(acceptedCount),
                                   rejectedCount)
    /\ acceptedCount' = Increment(acceptedCount)
    /\ ledger' = [ledger EXCEPT
                     !.fullEvaluated = @ + 1,
                     !.evaluationEvents =
                        @ + NumEvaluationEvents(events') - NumEvaluationEvents(events)]
    /\ lastOp' = "insert"
    /\ UNCHANGED <<server, runs>>
    /\ IterationLocalsReset
    /\ pc' = "loop"
    /\ UNCHANGED <<config, rejectedCount, iteration, reflection, nextId>>

Next ==
    \/ Start
    \/ EvaluateOriginal
    \/ IterationStart
    \/ LoopExit
    \/ Complete
    \/ HandlerStoresStatus
    \/ HandlerCloses
    \/ MutateStart
    \/ ReflectReturns
    \/ ReflectFails
    \/ SubsampleReturns
    \/ FullEvaluationReturns

Spec == Init /\ [][Next]_vars

\* The positions at which runGEPA waits for LLM calls
AwaitPositions == {"eval_original", "reflect", "subsample", "full_eval"}

\* The steps that need no LLM call: the event loop runs them as soon as they are ready
SchedulerStep ==
    \/ Start
    \/ IterationStart
    \/ LoopExit
    \/ Complete
    \/ MutateStart
    \/ HandlerStoresStatus
    \/ HandlerCloses

\* The event loop keeps running what is ready, and every LLM call returns
FairSpec ==
    /\ Spec
    /\ WF_vars(SchedulerStep)
    /\ \A p \in AwaitPositions : []<>(pc # p)

\* The positions inside the loop of runGEPA
LoopPositions == {"loop", "mutate", "reflect", "subsample", "full_eval"}

\* An exception inside the loop: runGEPA has no try / catch, so the exception leaves
\* the function (its locals are gone) and reaches the catch of handleStartOptimization
InternalError ==
    /\ pc \in LoopPositions
    /\ pc' = "threw"
    /\ server' = [server EXCEPT !.error = "internal"]
    /\ IterationLocalsReset
    /\ reflection' = NoReflection
    /\ UNCHANGED <<config, archive, perTaskPareto, totalEvaluations, acceptedCount,
                   rejectedCount, iteration, nextId, events, ledger, lastOp, runs>>

\* The run together with exceptions inside its loop
NextFaulty ==
    \/ Next
    \/ InternalError

SpecFaulty == Init /\ [][NextFaulty]_vars

\* The run together with stop requests of the user
NextServer ==
    \/ Next
    \/ HandleStopOptimization

SpecServer == Init /\ [][NextServer]_vars

-----------------------------------------------------------------------------
(* The Pareto index on its own: candidates are archived and indexed one after  *)
(* the other, as runGEPA does at its lines addToArchive / updatePerTaskPareto. *)
(* The index reads only a candidate's id, evaluations and avgDescriptionLength, *)
(* so the average length is drawn directly.                                    *)

AvgLengths == {Rat(50, 1), Rat(100, 1)}

InitPareto ==
    /\ config \in {MakeConfig(n, 1, 1, 0) : n \in 1..MaxTasks}
    /\ pc = "index"
    /\ archive = CreateArchive
    /\ perTaskPareto = CreatePerTaskPareto(config.testCases)
    /\ totalEvaluations = 0
    /\ acceptedCount = 0
    /\ rejectedCount = 0
    /\ iteration = 0
    /\ parent = NoCandidate
    /\ offspring = NoCandidate
    /\ reflection = NoReflection
    /\ subsample = <<>>
    /\ subsampleScore = NoScore
    /\ parentSubsampleScore = NoScore
    /\ nextId = 1
    /\ events = <<>>
    /\ ledger = EmptyLedger
    /\ lastOp = "none"
    /\ server = NoRun
    /\ runs = <<>>

\* addToArchive(archive, c); updatePerTaskPareto(perTaskPareto, c, archive) for a
\* freshly evaluated candidate c
InsertCandidate ==
    /\ pc = "index"
    /\ GetArchiveSize(archive) < MaxInserts
    /\ \E answers \in RightOrNullAnswers(config.testCases), avg \in AvgLengths :
         LET evaluated == EvaluateCandidate([id |-> nextId, tools |-> config.tools],
                                            config.testCases, answers)
             newCandidate == [evaluated EXCEPT !.avgDescriptionLength = avg]
             archive1 == AddToArchive(archive, newCandidate, NoId)
         IN  /\ archive' = archive1
             /\ perTaskPareto' = UpdatePerTaskPareto(perTaskPareto, newCandidate, archive1)
    /\ nextId' = nextId + 1
    /\ lastOp' = "insert"
    /\ UNCHANGED <<server, runs>>
    /\ UNCHANGED <<config, pc, totalEvaluations, acceptedCount, rejectedCount, iteration,
                   parent, offspring, reflection, subsample, subsampleScore,
                   parentSubsampleScore, events, ledger>>

\* updatePerTaskPareto called a second time with a candidate it has already indexed
ReinsertCandidate ==
    /\ pc = "index"
    /\ lastOp = "insert"
    /\ \E i \in DOMAIN archive.candidates :
         perTaskPareto' = UpdatePerTaskPareto(perTaskPareto, archive.candidates[i], archive)
    /\ lastOp' = "reinsert"
    /\ UNCHANGED <<server, runs>>
    /\ UNCHANGED <<config, pc, archive, totalEvaluations, acceptedCount, rejectedCount,
                   iteration, parent, offspring, reflection, subsample, subsampleScore,
                   parentSubsampleScore, nextId, events, ledger>>

NextPareto == InsertCandidate

SpecPareto == InitPareto /\ [][NextPareto]_vars

NextReinsert ==
    \/ InsertCandidate
    \/ ReinsertCandidate

SpecReinsert == InitPareto /\ [][NextReinsert]_vars

-----------------------------------------------------------------------------
(* The evaluation limiter and the gateway calls in flight.  Each run of the     *)
(* process is followed through its awaits only: which Promise.all it waits for, *)
(* how many of its tasks the limiter holds back, runs, or has seen settle, and  *)
(* whether its reflect() call is pending.  What the calls answer is left open:  *)
(* the acceptance check may go either way.                                      *)

\* The runs of the process (activeRuns holds one entry per started run)
RunIds == {"r1", "r2"}

\* The options a run of this section is started with
LimiterConfigs ==
    { [testCases |-> n, maxConcurrentEvaluations |-> w,
       subsampleSize |-> 1, maxEvaluations |-> MaxBudget] :
        n \in 1..MaxTests, w \in 1..MaxWidth }

IdleRun ==
    [pc |-> "idle", phase |-> "none", testCases |-> 0, concurrency |-> 0,
     subsampleSize |-> 0, maxEvaluations |-> 0,
     total |-> 0, queued |-> 0, activeCount |-> 0, settled |-> 0,
     totalEvaluations |-> 0, archived |-> 0]

\* Variant of the limiter that lets one task more than its width run
HasCapacityInclusive(activeCount, concurrency) == activeCount <= concurrency

\* p-limit: a queued task is run while activeCount < concurrency
HasCapacity(activeCount, concurrency) == activeCount < concurrency

\* Variant of the join that resumes as soon as one task has settled
AnySettled(settled, total) == settled >= 1

\* await Promise.all(tasks) resumes when every task has settled
AllSettled(settled, total) == settled = total

\* testCases.map(tc => limit(task)): every task is handed to the limiter
QueueTasks(run, phase, n) ==
    [run EXCEPT !.pc = "evaluate", !.phase = phase, !.total = n, !.queued = n,
                !.activeCount = 0, !.settled = 0]

\* The gateway calls of a run that have been made and have not returned
InFlight(run) == run.activeCount + (IF run.pc = "reflect" THEN 1 ELSE 0)

InitLimiter ==
    /\ config = MakeConfig(1, 1, 1, 0)
    /\ pc = "limiter"
    /\ archive = CreateArchive
    /\ perTaskPareto = CreatePerTaskPareto(<<>>)
    /\ totalEvaluations = 0
    /\ acceptedCount = 0
    /\ rejectedCount = 0
    /\ iteration = 0
    /\ parent = NoCandidate
    /\ offspring = NoCandidate
    /\ reflection = NoReflection
    /\ subsample = <<>>
    /\ subsampleScore = NoScore
    /\ parentSubsampleScore = NoScore
    /\ nextId = 1
    /\ events = <<>>
    /\ ledger = EmptyLedger
    /\ lastOp = "none"
    /\ server = NoRun
    /\ runs = [r \in RunIds |-> IdleRun]

\* Everything but the runs of this section
schedulerVars ==
    <<config, pc, archive, perTaskPareto, totalEvaluations, acceptedCount, rejectedCount,
      iteration, parent, offspring, reflection, subsample, subsampleScore,
      parentSubsampleScore, nextId, events, ledger, lastOp, server>>

\* handleStartOptimization calls runGEPA: createEvaluationLimiter makes a limiter
\* for this run, and evaluateCandidate(original) hands its tasks to it
RunStarts(r) ==
    /\ runs[r].pc = "idle"
    /\ \E c \in LimiterConfigs :
         runs' = [runs EXCEPT ![r] =
                    QueueTasks([IdleRun EXCEPT !.testCases = c.testCases,
                                               !.concurrency = c.maxConcurrentEvaluations,
                                               !.subsampleSize = c.subsampleSize,
                                               !.maxEvaluations = c.maxEvaluations],
                               "original", c.testCases)]
    /\ UNCHANGED schedulerVars

\* The limiter of run r starts a queued task: its evaluateWithTools call is made
LimiterRunsTask(r) ==
    /\ runs[r].pc = "evaluate"
    /\ runs[r].queued > 0
    /\ HasCapacity(runs[r].activeCount, runs[r].concurrency)
    /\ runs' = [runs EXCEPT ![r].queued = @ - 1, ![r].activeCount = @ + 1]
    /\ UNCHANGED schedulerVars

\* A call of run r returns (evaluateWithTools never rejects): the task settles
TaskSettles(r) ==
    /\ runs[r].pc = "evaluate"
    /\ runs[r].activeCount > 0
    /\ runs' = [runs EXCEPT ![r].activeCount = @ - 1, ![r].settled = @ + 1]
    /\ UNCHANGED schedulerVars

\* Promise.all of run r resolves and runGEPA continues to its next await: the
\* baseline or the offspring is archived and indexed, or the subsample score is
\* compared and the offspring is rejected or handed to evaluateCandidate
EvaluationResolves(r) ==
    LET run == runs[r] IN
    /\ run.pc = "evaluate"
    /\ AllSettled(run.settled, run.total)
    /\ CASE run.phase = "original" ->
              runs' = [runs EXCEPT ![r] =
                         [run EXCEPT !.pc = "loop", !.phase = "none",
                                     !.totalEvaluations = run.testCases,
                                     !.archived = 1]]
         [] run.phase = "subsample" ->
              \E rejected \in BOOLEAN :
                 runs' = [runs EXCEPT ![r] =
                            IF rejected
                            THEN [run EXCEPT !.pc = "loop", !.phase = "none",
                                             !.totalEvaluations = @ + run.total]
                            ELSE QueueTasks([run EXCEPT !.totalEvaluations = @ + run.total],
                                            "full", run.testCases)]
         [] run.phase = "full" ->
              runs' = [runs EXCEPT ![r] =
                         [run EXCEPT !.pc = "loop", !.phase = "none",
                                     !.totalEvaluations = @ + run.testCases,
                                     !.archived = @ + 1]]
    /\ UNCHANGED schedulerVars

\* The loop test of run r, and mutateViaReflection up to its await: reflect() is
\* called without the limiter, or the parent is returned without a call and the
\* subsample is handed to the limiter
RunLoops(r) ==
    LET run == runs[r] IN
    /\ run.pc = "loop"
    /\ IF BudgetLeft(run.totalEvaluations, run.maxEvaluations)
       THEN \/ runs' = [runs EXCEPT ![r].pc = "reflect"]
            \/ runs' = [runs EXCEPT ![r] =
                           QueueTasks(run, "subsample", Min(run.subsampleSize, run.testCases))]
       ELSE runs' = [runs EXCEPT ![r].pc = "done"]
    /\ UNCHANGED schedulerVars

\* reflect() of run r returns or fails: mutateViaReflection returns and the
\* subsample is handed to the limiter
ReflectSettles(r) ==
    LET run == runs[r] IN
    /\ run.pc = "reflect"
    /\ runs' = [runs EXCEPT ![r] =
                   QueueTasks(run, "subsample", Min(run.subsampleSize, run.testCases))]
    /\ UNCHANGED schedulerVars

NextLimiter ==
    \E r \in RunIds :
        \/ RunStarts(r)
        \/ LimiterRunsTask(r)
        \/ TaskSettles(r)
        \/ EvaluationResolves(r)
        \/ RunLoops(r)
        \/ ReflectSettles(r)

SpecLimiter == InitLimiter /\ [][NextLimiter]_vars

-----------------------------------------------------------------------------
(* evaluateCandidate on its own: the tool selections of one candidate settle *)
(* one at a time, in any order, and Promise.all resolves once all have       *)

InitEvaluator ==
    /\ config \in {MakeConfig(n, 1, 1, 0) : n \in 1..MaxTests}
    /\ pc = "evaluator"
    /\ archive = CreateArchive
    /\ perTaskPareto = CreatePerTaskPareto(<<>>)
    /\ totalEvaluations = 0
    /\ acceptedCount = 0
    /\ rejectedCount = 0
    /\ iteration = 0
    /\ parent = NoCandidate
    /\ offspring = [id |-> 1, tools |-> BaseTools]
    /\ reflection = NoReflection
    /\ subsample = <<>>
    /\ subsampleScore = NoScore
    /\ parentSubsampleScore = NoScore
    /\ nextId = 2
    /\ events = <<>>
    /\ ledger = EmptyLedger
    /\ lastOp = "none"
    /\ server = NoRun
    /\ runs \in {[outcomes |-> o, results |-> <<>>, returned |-> NoCandidate] :
                    o \in SeqsOf(GatewayOutcomes, Len(config.testCases))}

\* One task of evaluateCandidate: evaluateTestCase returns for test case i and the
\* evaluation event is emitted
ToolSelectionSettles ==
    /\ pc = "evaluator"
    /\ \E i \in (DOMAIN config.testCases) \ (DOMAIN runs.results) :
         LET result == EvaluateTestCase(config.testCases[i],
                                        EvaluateWithTools(runs.outcomes[i]))
         IN  /\ runs' = [runs EXCEPT !.results = MapSet(@, i, result)]
             /\ events' = Emit(events, EvaluationEvents(offspring, <<result>>))
    /\ UNCHANGED <<config, pc, archive, perTaskPareto, totalEvaluations, acceptedCount,
                   rejectedCount, iteration, parent, offspring, reflection, subsample,
                   subsampleScore, parentSubsampleScore, nextId, ledger, lastOp, server>>

\* Promise.all resolves: evaluateCandidate returns the evaluated candidate
EvaluateCandidateResolves ==
    /\ pc = "evaluator"
    /\ DOMAIN runs.results = DOMAIN config.testCases
    /\ runs' = [runs EXCEPT !.returned =
                   EvaluateCandidate(offspring, config.testCases,
                       [i \in DOMAIN config.testCases |->
                           EvaluateWithTools(runs.outcomes[i])])]
    /\ pc' = "evaluated"
    /\ UNCHANGED <<config, archive, perTaskPareto, totalEvaluations, acceptedCount,
                   rejectedCount, iteration, parent, offspring, reflection, subsample,
                   subsampleScore, parentSubsampleScore, nextId, events, ledger, lastOp,
                   server>>

NextEvaluator ==
    \/ ToolSelectionSettles
    \/ EvaluateCandidateResolves

SpecEvaluator == InitEvaluator /\ [][NextEvaluator]_vars

-----------------------------------------------------------------------------
(* Vocabulary of the properties *)

HasEvent(type) == \E i \in DOMAIN events : events[i].type = type

EventOf(type) == events[CHOOSE i \in DOMAIN events : events[i].type = type]

NumTests == Len(config.testCases)

Archived == Range(archive.candidates)

Front(t) == Range(perTaskPareto.taskFronts[t])

CorrectOn(c, t) == \E i \in DOMAIN c.evaluations :
                      c.evaluations[i].testCaseId = t /\ c.evaluations[i].correct

CorrectSet(c) == {t \in 1..NumTests : CorrectOn(c, t)}

\* A dominates B on t: A is correct and B is not, or both are correct and A is
\* strictly shorter
Dominates(a, b, t) ==
    \/ CorrectOn(a, t) /\ ~CorrectOn(b, t)
    \/ CorrectOn(a, t) /\ CorrectOn(b, t)
         /\ RatLT(a.avgDescriptionLength, b.avgDescriptionLength)

DominanceCountOf(id) == MapGetOr0(perTaskPareto.dominanceCount, id)

FrontsHolding(id) == {t \in DOMAIN perTaskPareto.taskFronts : id \in Front(t)}

S3Config == MakeConfig(10, 25, 5, 0)

Floor == Rat(config.minAccuracy, 1000)

\* The offspring's subsample score is below the parent's by more than 0.001
WorseThanParent(score, parentScore) ==
    1000 * (parentScore.num * score.den - score.num * parentScore.den)
        > score.den * parentScore.den

-----------------------------------------------------------------------------
(* Properties of runGEPA, stated for Spec            *)

\* C1: when a run completes, totalEvaluations is |testCases| for the baseline,
\* plus the size of every subsample drawn, plus |testCases| for every offspring
\* that was fully evaluated; the reflection calls are not in it.
BudgetAccounting ==
    pc \in {"complete", "done"} =>
        totalEvaluations =
            NumTests + ledger.subsampled + ledger.fullEvaluated * NumTests

BudgetAccountingWitness ==
    /\ pc = "done"
    /\ ledger.fullEvaluated >= 1
    /\ rejectedCount >= 1
    /\ ledger.reflectCalls >= 2

\* C2: every iteration started with totalEvaluations < maxEvaluations (its
\* iteration_start event carries the budget of that moment); with
\* maxEvaluations < |testCases| no iteration ever starts and the archive holds the
\* baseline alone; in scenario S3 the archive never holds more than 2 candidates.
IterationsStartWithinBudget ==
    /\ (pc \notin {"index"} /\ iteration >= 1) =>
          /\ Len(events) >= 1
          /\ events[1].type = "iteration_start"
          /\ events[1].iteration = iteration
          /\ events[1].totalEvaluations < config.maxEvaluations
    /\ (config.maxEvaluations < NumTests /\ pc \in {"loop", "complete", "done"}) =>
          /\ iteration = 0
          /\ ledger.subsampled = 0
          /\ totalEvaluations = NumTests
          /\ GetArchiveSize(archive) = 1
    /\ config = S3Config => GetArchiveSize(archive) <= 2

IterationsStartWithinBudgetWitness ==
    /\ config = S3Config
    /\ pc = "done"
    /\ iteration = 1
    /\ totalEvaluations = 25
    /\ GetArchiveSize(archive) = 2

\* C3 as stated: totalEvaluations never exceeds maxEvaluations.
BudgetNeverExceedsMax == totalEvaluations <= config.maxEvaluations

\* C3, amended: the budget is tested only when an iteration starts, so the
\* baseline and an iteration that has started are charged in full;
\* totalEvaluations never exceeds
\* maxEvaluations - 1 + min(subsampleSize, |testCases|) + |testCases|.
BudgetOvershootBounded ==
    totalEvaluations <=
        config.maxEvaluations - 1 + Min(config.subsampleSize, NumTests) + NumTests

BudgetOvershootBoundedWitness ==
    /\ iteration >= 1
    /\ totalEvaluations > config.maxEvaluations
    /\ totalEvaluations =
         config.maxEvaluations - 1 + Min(config.subsampleSize, NumTests) + NumTests

\* C4: once the subsample has been scored, the offspring is rejected exactly when
\* its score is below the parent's by more than 0.001 or below the floor, and it
\* goes on to the full evaluation (candidate_start) exactly otherwise; a score
\* below the floor is rejected with the reason that names the floor, so 0.6 under
\* a floor of 0.7 is rejected with "Below minimum accuracy (60% < 70% threshold)".
AcceptanceRule ==
    HasEvent("subsample_eval") =>
        LET e == EventOf("subsample_eval")
            belowFloor == RatLT(e.subsampleScore, Floor)
            shouldReject ==
                WorseThanParent(e.subsampleScore, e.parentSubsampleScore) \/ belowFloor
        IN  /\ HasEvent("offspring_rejected") <=> shouldReject
            /\ HasEvent("candidate_start") <=> ~shouldReject
            /\ belowFloor =>
                 /\ EventOf("offspring_rejected").reason.text = "Below minimum accuracy"
                 /\ EventOf("offspring_rejected").reason.against = Percent(Floor)
                 /\ EventOf("offspring_rejected").candidateId = e.candidateId
            /\ (RatEQ(e.subsampleScore, Rat(3, 5)) /\ config.minAccuracy = 700) =>
                 EventOf("offspring_rejected").reason =
                    [text |-> "Below minimum accuracy", score |-> 60, against |-> 70]

AcceptanceRuleWitness ==
    /\ config.minAccuracy = 700
    /\ HasEvent("offspring_rejected")
    /\ EventOf("subsample_eval").subsampleScore = Rat(3, 5)
    /\ RatLE(EventOf("subsample_eval").parentSubsampleScore, Rat(3, 5))
    /\ EventOf("offspring_rejected").reason =
          [text |-> "Below minimum accuracy", score |-> 60, against |-> 70]

\* C5: the step that rejects an offspring adds one to rejectedCount, charges the
\* subsample alone, runs no full evaluation, emits no offspring_accepted, and
\* leaves the archive, the fronts, the dominance counts and acceptedCount as they
\* were.
RejectionFrame ==
    [][ (~HasEvent("offspring_rejected") /\ HasEvent("offspring_rejected")') =>
          /\ rejectedCount' = rejectedCount + 1
          /\ acceptedCount' = acceptedCount
          /\ archive' = archive
          /\ perTaskPareto' = perTaskPareto
          /\ totalEvaluations' = totalEvaluations + Len(subsample)
          /\ ledger'.fullEvaluated = ledger.fullEvaluated
          /\ ~HasEvent("offspring_accepted")'
          /\ ~HasEvent("candidate_start")'
      ]_vars

RejectionFrameWitness ==
    /\ pc = "loop"
    /\ HasEvent("offspring_rejected")
    /\ rejectedCount >= 1
    /\ GetArchiveSize(archive) >= 2
    /\ \E t \in DOMAIN perTaskPareto.taskFronts : Cardinality(Front(t)) = 1

\* C6 as stated: with a floor set, every archived candidate has accuracy >= floor.
ArchiveMeetsFloor ==
    config.minAccuracy > 0 =>
        \A c \in Archived : ~RatLT(c.accuracy, Floor)

\* C6, amended: with a floor set, every offspring that is fully evaluated and
\* archived had a subsample score >= floor (the baseline is archived whatever
\* its accuracy, and the floor is applied to the subsample score, not to the
\* accuracy of the full evaluation).
ArchivedOffspringPassedFloor ==
    config.minAccuracy > 0 =>
        /\ pc = "full_eval" => ~RatLT(subsampleScore, Floor)
        /\ HasEvent("offspring_accepted") =>
              /\ HasEvent("subsample_eval")
              /\ EventOf("subsample_eval").candidateId =
                    EventOf("offspring_accepted").candidateId
              /\ ~RatLT(EventOf("subsample_eval").subsampleScore, Floor)

ArchivedOffspringPassedFloorWitness ==
    /\ config.minAccuracy = 700
    /\ HasEvent("offspring_accepted")
    /\ \E c \in Archived :
         /\ c.id = EventOf("offspring_accepted").candidateId
         /\ RatLT(c.accuracy, Floor)

-----------------------------------------------------------------------------
(* Properties of the Pareto index, stated for SpecPareto and SpecReinsert  *)

\* C7: on every task front, no member dominates another member on that task.
FrontsHaveNoDominance ==
    \A t \in DOMAIN perTaskPareto.taskFronts :
        /\ Front(t) \subseteq ArchiveIds(archive)
        /\ \A x, y \in Front(t) :
              ~Dominates(ArchiveGet(archive, x), ArchiveGet(archive, y), t)

FrontsHaveNoDominanceWitness ==
    /\ GetArchiveSize(archive) = 2
    /\ \E t1, t2 \in DOMAIN perTaskPareto.taskFronts :
         /\ Cardinality(Front(t1)) = 2
         /\ \E x, y \in Archived :
               /\ x.id # y.id
               /\ ~CorrectOn(x, t1) /\ ~CorrectOn(y, t1)
         /\ Cardinality(Front(t2)) = 1
         /\ \E x, y \in Archived :
               /\ CorrectOn(x, t2) /\ CorrectOn(y, t2)
               /\ RatLT(x.avgDescriptionLength, y.avgDescriptionLength)

\* C8: the dominance count of every archived candidate is the number of task
\* fronts that hold it (a candidate without an entry counts 0).
CountsMatchFronts ==
    /\ DOMAIN perTaskPareto.dominanceCount \subseteq ArchiveIds(archive)
    /\ \A id \in ArchiveIds(archive) :
          DominanceCountOf(id) = Cardinality(FrontsHolding(id))

CountsMatchFrontsWitness ==
    \E x, y \in ArchiveIds(archive) :
        /\ x \in DOMAIN perTaskPareto.dominanceCount
        /\ perTaskPareto.dominanceCount[x] = 0
        /\ DominanceCountOf(y) >= 2

\* C9: every task front is exactly the set of the archived candidates that no
\* archived candidate dominates on that task, so candidates that tie on the task
\* share the front; A (correct on 1, 2, 3; length 100) and B (correct on 1, 2, 4;
\* length 50) on 4 test cases give the fronts {B}, {B}, {A}, {B} and the counts
\* A = 1, B = 3.
FrontsAreTheNonDominated ==
    /\ \A t \in DOMAIN perTaskPareto.taskFronts :
          Front(t) =
             {c.id : c \in {c \in Archived :
                               ~\E d \in Archived : Dominates(d, c, t)}}
    /\ \A a, b \in Archived :
          ( /\ NumTests = 4
            /\ GetArchiveSize(archive) = 2
            /\ CorrectSet(a) = {1, 2, 3}
            /\ RatEQ(a.avgDescriptionLength, Rat(100, 1))
            /\ CorrectSet(b) = {1, 2, 4}
            /\ RatEQ(b.avgDescriptionLength, Rat(50, 1)) ) =>
          /\ Front(1) = {b.id}
          /\ Front(2) = {b.id}
          /\ Front(3) = {a.id}
          /\ Front(4) = {b.id}
          /\ DominanceCountOf(a.id) = 1
          /\ DominanceCountOf(b.id) = 3

FrontsAreTheNonDominatedWitness ==
    /\ NumTests = 4
    /\ GetArchiveSize(archive) = 2
    /\ \E a, b \in Archived :
         /\ a.id < b.id
         /\ CorrectSet(a) = {1, 2, 3}
         /\ RatEQ(a.avgDescriptionLength, Rat(100, 1))
         /\ CorrectSet(b) = {1, 2, 4}
         /\ RatEQ(b.avgDescriptionLength, Rat(50, 1))
         /\ Front(3) = {a.id}
         /\ Front(4) = {b.id}

\* C10: updating the index a second time with a candidate it already holds
\* leaves every task front and every dominance count as they were.
ReinsertionIsNoOp ==
    [][ lastOp' = "reinsert" => perTaskPareto' = perTaskPareto ]_vars

-----------------------------------------------------------------------------
(* Properties of the archive and of the event stream of a run, stated for Spec *)

\* The events of the log that report the counters of the run
CounterEvents ==
    {i \in DOMAIN events : events[i].type \in {"archive_update", "optimization_complete"}}

\* C11 (as stated): once the baseline is archived, the archive holds one candidate
\* more than acceptedCount, in the state and in every event that reports both.
ArchiveSizeIsAcceptedPlusOne ==
    /\ GetArchiveSize(archive) >= 1 => GetArchiveSize(archive) = acceptedCount + 1
    /\ \A i \in CounterEvents : events[i].archiveSize = events[i].acceptedCount + 1

\* C11 (amended): the archive holds exactly acceptedCount candidates, the baseline
\* being counted as accepted, in the state and in every archive_update and
\* optimization_complete event.
ArchiveSizeIsAccepted ==
    /\ GetArchiveSize(archive) = acceptedCount
    /\ \A i \in CounterEvents : events[i].archiveSize = events[i].acceptedCount

ArchiveSizeIsAcceptedWitness ==
    /\ acceptedCount = 2
    /\ GetArchiveSize(archive) = 2
    /\ rejectedCount >= 1
    /\ HasEvent("optimization_complete")

\* C12: the baseline has no parent link; every other archived candidate has a
\* parent link to a candidate archived before it.
ParentLinksPointBack ==
    \A i \in DOMAIN archive.candidates :
        LET id == archive.candidates[i].id IN
        IF i = 1
        THEN id \notin DOMAIN archive.parentOf
        ELSE /\ id \in DOMAIN archive.parentOf
             /\ \E j \in 1..(i - 1) : archive.candidates[j].id = archive.parentOf[id]

ParentLinksPointBackWitness ==
    /\ GetArchiveSize(archive) = 3
    /\ archive.parentOf[archive.candidates[3].id] = archive.candidates[2].id
    /\ archive.parentOf[archive.candidates[2].id] = archive.candidates[1].id

\* C13: every archived candidate holds exactly one result per test case of the
\* run, and its accuracy is the number of its correct results over the number of
\* test cases, between 0 and 1.
ArchivedAreFullyEvaluated ==
    \A c \in Archived :
        /\ Len(c.evaluations) = NumTests
        /\ \A t \in 1..NumTests :
              Cardinality({i \in DOMAIN c.evaluations :
                              c.evaluations[i].testCaseId = config.testCases[t].id}) = 1
        /\ RatEQ(c.accuracy,
                 Rat(Cardinality({i \in DOMAIN c.evaluations : c.evaluations[i].correct}),
                     NumTests))
        /\ c.accuracy.den > 0
        /\ 0 <= c.accuracy.num
        /\ c.accuracy.num <= c.accuracy.den

ArchivedAreFullyEvaluatedWitness ==
    /\ NumTests = 2
    /\ \E c \in Archived :
         /\ c.id > 1
         /\ c.accuracy = Rat(1, 2)
         /\ ~c.evaluations[1].correct
         /\ c.evaluations[2].correct

\* The events of the log that settle the fate of an offspring
Verdicts ==
    {i \in DOMAIN events : events[i].type \in {"offspring_accepted", "offspring_rejected"}}

\* C16: an offspring_accepted or offspring_rejected event comes after the
\* candidate_done event of the same candidate, with the matching status; an
\* iteration emits at most one of the two, and exactly one by the time it is done;
\* the candidate_done of an offspring is followed by its verdict.
DoneBeforeVerdict ==
    /\ \A i \in Verdicts :
          \E j \in 1..(i - 1) :
             /\ events[j].type = "candidate_done"
             /\ events[j].candidateId = events[i].candidateId
             /\ events[j].status =
                   (IF events[i].type = "offspring_accepted" THEN "accepted" ELSE "rejected")
    /\ Cardinality(Verdicts) <= 1
    /\ HasEvent("iteration_done") => Cardinality(Verdicts) = 1
    /\ \A j \in DOMAIN events :
          (events[j].type = "candidate_done" /\ events[j].generation >= 1) =>
             \E i \in Verdicts : i > j /\ events[i].candidateId = events[j].candidateId

DoneBeforeVerdictWitness ==
    /\ HasEvent("offspring_rejected")
    /\ HasEvent("iteration_done")
    /\ acceptedCount = 2

\* C17: optimization_start is the first event of the run and is emitted once;
\* when the loop is first reached the log is optimization_start, the baseline's
\* evaluation events (one per test case), its candidate_done (accepted, no
\* parent) and archive_update (size 1, accepted 1, rejected 0), and holds no
\* iteration_start; from the first iteration_start on, no event of the baseline
\* is emitted.
BaselineEventsComeFirst ==
    /\ (iteration = 0 /\ events # <<>>) =>
          /\ events[1].type = "optimization_start"
          /\ \A i \in DOMAIN events : events[i].type = "optimization_start" => i = 1
          /\ ~HasEvent("iteration_start")
    /\ (iteration = 0 /\ pc = "loop") =>
          /\ Len(events) = 4
          /\ events[2].type = "evaluation"
          /\ events[2].candidateId = archive.candidates[1].id
          /\ {e.testCase : e \in events[2].results}
                = {config.testCases[t].id : t \in 1..NumTests}
          /\ Cardinality(events[2].results) = NumTests
          /\ events[3].type = "candidate_done"
          /\ events[3].candidateId = archive.candidates[1].id
          /\ events[3].status = "accepted"
          /\ events[3].parentId = NoId
          /\ events[4] = [type |-> "archive_update", archiveSize |-> 1,
                          totalEvaluations |-> totalEvaluations,
                          acceptedCount |-> 1, rejectedCount |-> 0]
    /\ iteration >= 1 =>
          /\ events[1].type = "iteration_start"
          /\ ~HasEvent("optimization_start")
          /\ \A i \in DOMAIN events :
                events[i].type \in {"evaluation", "candidate_done"} =>
                   events[i].candidateId # archive.candidates[1].id

BaselineEventsComeFirstWitness ==
    /\ iteration = 1
    /\ pc = "full_eval"
    /\ NumTests = 2
    /\ HasEvent("iteration_start")

\* C18 (as stated): every iteration ends with archive_update followed by
\* iteration_done.
IterationEndsWithUpdate ==
    (pc = "loop" /\ iteration >= 1) =>
        /\ Len(events) >= 2
        /\ events[Len(events) - 1].type = "archive_update"
        /\ events[Len(events)].type = "iteration_done"

\* C18 (amended): every iteration ends with iteration_done carrying its number,
\* the budget consumed and the archive size; an accepted iteration emits
\* archive_update with the current counters just before it, a rejected one emits
\* no archive_update.
IterationEndsWithDone ==
    (pc = "loop" /\ iteration >= 1) =>
        LET n == Len(events) IN
        /\ n >= 2
        /\ events[n] = [type |-> "iteration_done", iteration |-> iteration,
                        totalEvaluations |-> totalEvaluations,
                        archiveSize |-> GetArchiveSize(archive)]
        /\ IF HasEvent("offspring_accepted")
           THEN events[n - 1] = [type |-> "archive_update",
                                 archiveSize |-> GetArchiveSize(archive),
                                 totalEvaluations |-> totalEvaluations,
                                 acceptedCount |-> acceptedCount,
                                 rejectedCount |-> rejectedCount]
           ELSE /\ events[n - 1].type = "offspring_rejected"
                /\ ~HasEvent("archive_update")

IterationEndsWithDoneWitness ==
    /\ pc = "loop"
    /\ iteration = 2
    /\ acceptedCount = 2
    /\ rejectedCount = 1
    /\ HasEvent("offspring_rejected")

\* C19: under FairSpec (every LLM call returns), a run started with a non-empty
\* test set reaches optimization_complete; every finished iteration has raised the
\* budget consumed; optimization_complete is emitted once, as the last event, and
\* carries the archive size, budget and counters of the final state.
RunTerminates ==
    /\ (pc = "eval_original") ~> HasEvent("optimization_complete")
    /\ [](HasEvent("iteration_done") =>
             EventOf("iteration_done").totalEvaluations
                > EventOf("iteration_start").totalEvaluations)
    /\ [](HasEvent("optimization_complete") =>
             /\ Cardinality({i \in DOMAIN events :
                                events[i].type = "optimization_complete"}) = 1
             /\ events[Len(events)] =
                   [type |-> "optimization_complete",
                    archiveSize |-> GetArchiveSize(archive),
                    totalEvaluations |-> totalEvaluations,
                    acceptedCount |-> acceptedCount,
                    rejectedCount |-> rejectedCount]
             /\ ~BudgetLeft(totalEvaluations, config.maxEvaluations))

RunTerminatesWitness ==
    /\ HasEvent("optimization_complete")
    /\ iteration = 2
    /\ acceptedCount = 2
    /\ rejectedCount = 1
    /\ pc = "closed"

-----------------------------------------------------------------------------
(* Properties of the limiter and of the calls in flight, stated for SpecLimiter *)

\* The runs that have been started
StartedRuns == {r \in DOMAIN runs : runs[r].pc # "idle"}

\* The gateway calls in flight in the process
RECURSIVE InFlightOf(_)
InFlightOf(rs) ==
    IF rs = {} THEN 0
    ELSE LET r == CHOOSE x \in rs : TRUE
         IN  InFlight(runs[r]) + InFlightOf(rs \ {r})

\* C14: a run's archive (and, with it, its Pareto index) changes only in a step
\* taken when every task of the evaluation it waited for has settled - as many as
\* the run has test cases - and no gateway call of the run is in flight, before
\* or after the step.
ArchivedOnlyAfterAllCalls ==
    [][ \A r \in DOMAIN runs :
          runs'[r].archived # runs[r].archived =>
            /\ runs[r].settled = runs[r].testCases
            /\ runs[r].queued = 0
            /\ InFlight(runs[r]) = 0
            /\ InFlight(runs'[r]) = 0 ]_vars

ArchivedOnlyAfterAllCallsWitness ==
    \E r \in DOMAIN runs :
        /\ runs[r].archived = 2
        /\ runs[r].testCases = 2
        /\ runs[r].concurrency = 1

\* C15 (as stated): the gateway calls in flight in the process, over all runs,
\* never outnumber the width a started run was configured with.
ProcessWideLimit ==
    \A r \in StartedRuns : InFlightOf(DOMAIN runs) <= runs[r].concurrency

\* C15 (amended): the gateway calls of one run in flight never outnumber that
\* run's own width: its tool-selection calls pass through the run's limiter, and
\* its reflection call, which does not, is made while none of them is running.
PerRunLimit ==
    \A r \in StartedRuns :
        /\ InFlight(runs[r]) <= runs[r].concurrency
        /\ runs[r].activeCount <= runs[r].concurrency
        /\ runs[r].pc = "reflect" => runs[r].activeCount = 0

PerRunLimitWitness ==
    \E r \in StartedRuns :
        /\ runs[r].testCases > runs[r].concurrency
        /\ runs[r].activeCount = runs[r].concurrency
        /\ runs[r].queued > 0
        /\ InFlightOf(DOMAIN runs) > runs[r].concurrency

(***************************************************************************)
(* Properties of a stopped run, under SpecServer                           *)
(***************************************************************************)

\* C20: once handleStopOptimization has aborted the run, the scheduler starts
\* no new iteration and issues no new subsample or full evaluation
StoppedRunStartsNothing ==
    [][server.aborted =>
          /\ iteration' = iteration
          /\ (pc' = "subsample" => pc = "subsample")
          /\ (pc' = "full_eval" => pc = "full_eval")]_vars

\* C21: a run that was stopped at the head of the loop, with no LLM call in
\* flight, is completed and keeps the archive it had when it was stopped (only the
\* baseline if it was stopped before the first iteration)
StoppedArchiveIsFrozen ==
    (ledger.stop.requested /\ ledger.stop.atLoopHead) =>
        /\ server.status = "completed"
        /\ GetArchiveSize(archive) = ledger.stop.archiveSize

(***************************************************************************)
(* Properties of a run that throws, under SpecFaulty                       *)
(***************************************************************************)

\* C22: when an exception leaves the loop of runGEPA, the run is stored as failed,
\* an error event with the message of the exception is emitted, and no
\* optimization_complete is emitted
FatalErrorFailsRun ==
    /\ pc \in {"threw", "failed_stored", "closed"} /\ server.error # Null =>
          ~HasEvent("optimization_complete")
    /\ pc \in {"failed_stored", "closed"} /\ server.error # Null =>
          server.status = "failed"
    /\ pc = "closed" /\ server.error # Null =>
          events[Len(events)] = [type |-> "error", message |-> server.error]
    /\ pc = "closed" /\ server.error = Null =>
          /\ server.status = "completed"
          /\ ~HasEvent("error")

FatalErrorFailsRunWitness ==
    /\ pc = "closed"
    /\ server.error = "internal"
    /\ server.status = "failed"
    /\ iteration = 2
    /\ GetArchiveSize(archive) = 2
    /\ HasEvent("error")

(***************************************************************************)
(* Properties of evaluateCandidate, under SpecEvaluator                    *)
(***************************************************************************)

\* C23: a tool selection that fails in the gateway, or that returns no tool call,
\* is recorded as selectedTool = null and correct = false; evaluateCandidate still
\* returns, with one result for every test case, each the result of its own call
GatewayFailuresAreContained ==
    /\ \A i \in DOMAIN runs.results :
          runs.outcomes[i] \in {"no_tool_call", "error"} =>
             /\ runs.results[i].selectedTool = Null
             /\ ~runs.results[i].correct
    /\ pc = "evaluated" =>
          /\ Len(runs.returned.evaluations) = Len(config.testCases)
          /\ \A i \in DOMAIN config.testCases :
                /\ runs.returned.evaluations[i] = runs.results[i]
                /\ runs.returned.evaluations[i].testCaseId = config.testCases[i].id
                /\ runs.outcomes[i] = config.testCases[i].expectedTool =>
                      runs.returned.evaluations[i].correct

GatewayFailuresAreContainedWitness ==
    /\ pc = "evaluated"
    /\ Len(config.testCases) = 2
    /\ runs.outcomes = <<"error", "math">>
    /\ ~runs.returned.evaluations[1].correct
    /\ runs.returned.evaluations[2].correct

(***************************************************************************)
(* Properties of mutateViaReflection, under Spec                           *)
(***************************************************************************)

\* C24: when the reflect() call of the mutator fails, mutateViaReflection returns
\* a candidate with a fresh id and the tools of the parent, nothing is thrown to
\* runGEPA, and the iteration goes on to the subsample evaluation of that candidate
ReflectionFailureIsNoOp ==
    [][(pc = "reflect" /\ events' = events) =>
          /\ pc' = "subsample"
          /\ offspring'.tools = parent.tools
          /\ offspring'.id # parent.id
          /\ offspring'.id \notin ArchiveIds(archive)
          /\ parent' = parent
          /\ archive' = archive
          /\ totalEvaluations' = totalEvaluations
          /\ subsample' \in SampleTestCases(config.testCases, config.subsampleSize)]_vars

ReflectionFailureIsNoOpWitness ==
    /\ pc = "subsample"
    /\ HasEvent("reflection_start")
    /\ ~HasEvent("reflection_done")
    /\ offspring.tools = parent.tools
    /\ offspring.id = 3
    /\ parent.id = 2

\* The positions of the tools whose description differs between two tool lists
RewrittenTools(old, new) ==
    {i \in DOMAIN old : new[i].description # old[i].description}

\* C25: the offspring returned by mutateViaReflection has an id of its own and the
\* tools of its parent in the same order, with the same id, name, input schema and
\* server id, and with at most one description rewritten; the parent held by the
\* archive is as it was selected
MutationRewritesOneDescription ==
    pc \in {"subsample", "full_eval"} =>
        /\ offspring.id # parent.id
        /\ offspring.id \notin ArchiveIds(archive)
        /\ DOMAIN offspring.tools = DOMAIN parent.tools
        /\ \A i \in DOMAIN parent.tools :
              /\ offspring.tools[i].id = parent.tools[i].id
              /\ offspring.tools[i].name = parent.tools[i].name
              /\ offspring.tools[i].inputSchema = parent.tools[i].inputSchema
              /\ offspring.tools[i].serverId = parent.tools[i].serverId
        /\ Cardinality(RewrittenTools(parent.tools, offspring.tools)) <= 1
        /\ parent.id \in ArchiveIds(archive)
        /\ ArchiveGet(archive, parent.id) = parent

MutationRewritesOneDescriptionWitness ==
    /\ pc = "full_eval"
    /\ parent.id = 2
    /\ parent.tools # config.tools
    /\ RewrittenTools(parent.tools, offspring.tools) = {2}
    /\ RewrittenTools(config.tools, offspring.tools) = {1, 2}

\* The positions of the parent's results that are not correct
Failing(candidate) ==
    {i \in DOMAIN candidate.evaluations : ~candidate.evaluations[i].correct}

\* C26: the mutator reflects on a failure exactly when the selected parent has an
\* incorrect result, and then the tool it rewrites is the expected tool of one of
\* those results; it reflects on conciseness exactly when the parent has none
MutationPathFollowsFailures ==
    pc \in {"reflect", "subsample", "full_eval"} =>
        IF HasEvent("reflection_start")
        THEN LET start == EventOf("reflection_start") IN
             /\ start.candidateId = parent.id
             /\ (start.failure.query = ConcisenessQuery) <=> (Failing(parent) = {})
             /\ Failing(parent) # {} =>
                   \E i \in Failing(parent) :
                      /\ parent.evaluations[i].expectedTool = start.tool
                      /\ start.failure.expected = start.tool
                      /\ start.failure.selected = parent.evaluations[i].selectedTool
                      /\ start.failure.query = QueryOf(parent.evaluations[i].testCaseId)
             /\ pc = "reflect" => reflection.tool = start.tool
             /\ pc # "reflect" =>
                   \A i \in RewrittenTools(parent.tools, offspring.tools) :
                      parent.tools[i].name = start.tool
        ELSE pc # "reflect" /\ offspring.tools = parent.tools

\* A second iteration whose parent has one failure, on the tool that is rewritten
MutationPathFollowsFailuresWitness ==
    /\ pc = "subsample"
    /\ iteration = 2
    /\ Cardinality(Failing(parent)) = 1
    /\ HasEvent("reflection_start")
    /\ EventOf("reflection_start").failure.query # ConcisenessQuery
    /\ RewrittenTools(parent.tools, offspring.tools) = {2}

\* The positions of the events of one type in the log
EventsOf(type) == {i \in DOMAIN events : events[i].type = type}

\* C27 as stated: every reflection_start of an iteration is followed by a matching
\* reflection_done before the subsample_eval of the iteration, whatever the outcome
\* of the reflect() call
ReflectionAlwaysDone ==
    (HasEvent("reflection_start") /\ HasEvent("subsample_eval")) =>
        \E i \in EventsOf("reflection_start"), j \in EventsOf("reflection_done"),
           k \in EventsOf("subsample_eval") :
            /\ i < j
            /\ j < k
            /\ events[j].candidateId = events[i].candidateId
            /\ events[j].tool = events[i].tool

\* C27: reflection_start, with the id of the parent and the tool, is emitted before
\* the reflect() call. When the call resolves, one matching reflection_done follows
\* it, before the subsample_eval of the iteration, and the offspring carries its
\* new description; when the call fails there is no reflection_done and the
\* offspring carries the tools of the parent
ReflectionDoneOnSuccess ==
    /\ Cardinality(EventsOf("reflection_start")) <= 1
    /\ Cardinality(EventsOf("reflection_done")) <= 1
    /\ pc = "reflect" =>
          /\ events[Len(events)].type = "reflection_start"
          /\ events[Len(events)].candidateId = parent.id
          /\ events[Len(events)].tool = reflection.tool
    /\ \A j \in EventsOf("reflection_done") :
          /\ j > 1
          /\ events[j - 1].type = "reflection_start"
          /\ events[j].candidateId = events[j - 1].candidateId
          /\ events[j].tool = events[j - 1].tool
          /\ \A k \in EventsOf("subsample_eval") : j < k
    /\ \A i \in EventsOf("reflection_start"), k \in EventsOf("subsample_eval") : i < k
    /\ pc \in {"subsample", "full_eval"} =>
          IF HasEvent("reflection_done")
          THEN LET done == EventOf("reflection_done") IN
               /\ done.candidateId = parent.id
               /\ offspring.tools = RewriteTool(parent.tools, done.tool, done.newDesc)
          ELSE offspring.tools = parent.tools

ReflectionDoneOnSuccessWitness ==
    /\ pc = "full_eval"
    /\ iteration = 2
    /\ HasEvent("reflection_start")
    /\ HasEvent("reflection_done")
    /\ HasEvent("subsample_eval")
    /\ EventOf("reflection_done").tool = "math"
    /\ offspring.tools # parent.tools

(***************************************************************************)
(* Properties of the evaluations of a run, under Spec                      *)
(***************************************************************************)

\* The evaluation entries of the log
EvaluationEntries == {events[i] : i \in EventsOf("evaluation")}

\* C28 as stated: every tool selection of a run, in a subsample evaluation as in a
\* full one, emits an evaluation event, so the run has emitted as many as the
\* budget it has consumed
EvaluationEventsMatchBudget ==
    ledger.evaluationEvents = totalEvaluations

\* C28: every tool selection of a full evaluation emits one evaluation event, with
\* the id of the candidate, the test case and correct = (selected = expected); a
\* subsample evaluation emits none, so the run has emitted as many evaluation
\* events as the budget it has consumed less the subsamples it was charged
EvaluationEventsMatchFullEvaluations ==
    /\ ledger.evaluationEvents = totalEvaluations - ledger.subsampled
    /\ ledger.evaluationEvents = NumTests * GetArchiveSize(archive)
    /\ \A e \in EvaluationEntries :
          /\ e.candidateId \in ArchiveIds(archive)
          /\ Cardinality(e.results) = NumTests
          /\ \A t \in DOMAIN config.testCases :
                \E r \in e.results :
                   /\ r.testCase = config.testCases[t].id
                   /\ r.expected = config.testCases[t].expectedTool
          /\ \A r \in e.results : r.correct <=> (r.selected = r.expected)
          /\ e.results =
                EvaluationEvents(ArchiveGet(archive, e.candidateId),
                                 ArchiveGet(archive, e.candidateId).evaluations).results
    /\ (HasEvent("subsample_eval") /\ HasEvent("offspring_rejected")) =>
          EvaluationEntries = {}

EvaluationEventsMatchFullEvaluationsWitness ==
    /\ NumTests = 2
    /\ ledger.subsampled = 2
    /\ ledger.evaluationEvents = 4
    /\ totalEvaluations = 6
    /\ HasEvent("offspring_accepted")
    /\ \E e \in EvaluationEntries :
          \E r1, r2 \in e.results : r1.correct /\ ~r2.correct /\ r2.selected = Null

\* C29: the subsample of an iteration holds min(subsampleSize, |testCases|) test
\* cases of the run, no two the same; it is the whole test set when subsampleSize
\* is not below |testCases|, and an accepted iteration is then charged |testCases|
\* for the subsample and |testCases| for the full evaluation
SubsampleIsDrawnWithoutReplacement ==
    /\ pc \in {"subsample", "full_eval"} =>
          /\ Len(subsample) = Min(config.subsampleSize, NumTests)
          /\ Range(subsample) \subseteq Range(config.testCases)
          /\ \A i, j \in DOMAIN subsample : i # j => subsample[i].id # subsample[j].id
          /\ config.subsampleSize >= NumTests =>
                Range(subsample) = Range(config.testCases)
    /\ HasEvent("subsample_eval") =>
          EventOf("subsample_eval").subsampleSize = Min(config.subsampleSize, NumTests)
    /\ (config.subsampleSize >= NumTests /\ HasEvent("offspring_accepted")) =>
          EventOf("iteration_done").totalEvaluations =
             EventOf("iteration_start").totalEvaluations + NumTests + NumTests

\* An accepted iteration of a run that asks for a subsample of 2 out of 2 test cases
SubsampleIsDrawnWithoutReplacementWitness ==
    /\ NumTests = 2
    /\ config.subsampleSize = 2
    /\ HasEvent("offspring_accepted")
    /\ EventOf("iteration_start").totalEvaluations = 2
    /\ EventOf("iteration_done").totalEvaluations = 6

\* The positions of the cached results of a candidate for one test case
CachedResults(candidate, testCase) ==
    {i \in DOMAIN candidate.evaluations :
        candidate.evaluations[i].testCaseId = testCase.id}

\* C30: when the subsample evaluation of the offspring returns, the score of the
\* parent is the share of correct results among the parent's cached results for
\* the test cases of this subsample, one cached result for each; only the
\* offspring's calls are made and charged, and the archive is not touched
ParentScoreIsReadFromCache ==
    [][pc = "subsample" =>
          LET e == CHOOSE x \in Range(events') : x.type = "subsample_eval" IN
          /\ \A k \in DOMAIN subsample :
                Cardinality(CachedResults(parent, subsample[k])) = 1
          /\ e.parentSubsampleScore.den = Len(subsample)
          /\ e.parentSubsampleScore.num =
                Cardinality({k \in DOMAIN subsample :
                                \A i \in CachedResults(parent, subsample[k]) :
                                   parent.evaluations[i].correct})
          /\ e.subsampleScore.den = e.parentSubsampleScore.den
          /\ e.subsampleSize = Len(subsample)
          /\ totalEvaluations' = totalEvaluations + Len(subsample)
          /\ ledger'.subsampled = ledger.subsampled + Len(subsample)
          /\ ledger'.fullEvaluated = ledger.fullEvaluated
          /\ ledger'.reflectCalls = ledger.reflectCalls
          /\ archive' = archive]_vars

\* The parent is right on one of its two test cases and the subsample is the one
\* it fails: its subsample score is 0, not its accuracy
ParentScoreIsReadFromCacheWitness ==
    /\ pc = "full_eval"
    /\ NumTests = 2
    /\ parent.accuracy = Rat(1, 2)
    /\ Len(subsample) = 1
    /\ ~parent.evaluations[subsample[1].id].correct
    /\ parentSubsampleScore = Rat(0, 1)
    /\ subsampleScore = Rat(1, 1)

(***************************************************************************)
(* Properties of the start of a run, under Spec                            *)
(***************************************************************************)

\* C31 as stated: a run started with an empty test set fails before any
\* evaluation, and no event at all is emitted for it
EmptyTestSetEmitsNothing ==
    NumTests = 0 =>
        /\ pc \in {"start", "threw", "failed_stored", "closed"}
        /\ events = << >>

\* C31: a run started with an empty test set fails in the validation of runGEPA,
\* before any evaluation or LLM call, and runGEPA emits no event; the handler has
\* sent optimization_start before the call and sends the error event after it
EmptyTestSetFailsBeforeAnyCall ==
    NumTests = 0 =>
        /\ pc \in {"start", "threw", "failed_stored", "closed"}
        /\ GetArchiveSize(archive) = 0
        /\ totalEvaluations = 0
        /\ ledger.subsampled = 0
        /\ ledger.fullEvaluated = 0
        /\ ledger.reflectCalls = 0
        /\ ledger.evaluationEvents = 0
        /\ pc = "start" => events = << >>
        /\ pc \in {"threw", "failed_stored"} => events = OptimizationStartEvents
        /\ pc \in {"failed_stored", "closed"} => server.status = "failed"
        /\ pc = "closed" =>
              events = OptimizationStartEvents \o
                       << [type |-> "error", message |-> NoTestCasesMessage] >>

EmptyTestSetFailsBeforeAnyCallWitness ==
    /\ NumTests = 0
    /\ pc = "closed"
    /\ server.status = "failed"
    /\ Len(events) = 2

-----------------------------------------------------------------------------
(* Runs started with a numeric option out of range *)

\* The ranges the options are documented with (types.ts): maxEvaluations,
\* subsampleSize at least 1, minAccuracy within 0..1 (in thousandths)
OutOfRange(cfg) ==
    \/ cfg.maxEvaluations < 1
    \/ cfg.subsampleSize < 1
    \/ cfg.minAccuracy < 0
    \/ cfg.minAccuracy > 1000

\* Requests whose body carries maxEvaluations 0 or subsampleSize 0: the handler
\* spreads the body into the configuration of runGEPA as it is
OutOfRangeConfigs ==
    { MakeConfig(n, 0, k, a) :
        n \in 1..MaxTests, k \in 1..MaxSubsample, a \in MinAccuracies }
    \cup
    { MakeConfig(n, m, 0, a) :
        n \in 1..MaxTests, m \in 1..MaxBudget, a \in MinAccuracies }

InitUnchecked ==
    /\ config \in OutOfRangeConfigs
    /\ pc = "start"
    /\ archive = CreateArchive
    /\ perTaskPareto = CreatePerTaskPareto(<<>>)
    /\ totalEvaluations = 0
    /\ acceptedCount = 0
    /\ rejectedCount = 0
    /\ iteration = 0
    /\ parent = NoCandidate
    /\ offspring = NoCandidate
    /\ reflection = NoReflection
    /\ subsample = <<>>
    /\ subsampleScore = NoScore
    /\ parentSubsampleScore = NoScore
    /\ nextId = 1
    /\ events = <<>>
    /\ ledger = EmptyLedger
    /\ lastOp = "none"
    /\ server = NoRun
    /\ runs = <<>>

SpecUnchecked == InitUnchecked /\ [][Next]_vars

\* C32 as stated: a configuration with a numeric option out of range is rejected
\* before the loop starts, no LLM call is made and no event is emitted
OutOfRangeOptionIsRejected ==
    OutOfRange(config) =>
        /\ pc \in {"start", "threw", "failed_stored", "closed"}
        /\ totalEvaluations = 0
        /\ GetArchiveSize(archive) = 0
        /\ ledger.evaluationEvents = 0
        /\ ~HasEvent("candidate_done")

-----------------------------------------------------------------------------
(* Properties of parent selection, under Spec *)

MeetsFloor(c) == ~RatLT(c.accuracy, Floor)

\* The positions of an iteration at which the selected parent is held
ParentHeld == {"mutate", "reflect", "subsample", "full_eval"}

\* C33: the selected parent is a member of the archive, and it meets the accuracy
\* floor whenever some archived candidate does; a parent below the floor is
\* selected only when no archived candidate meets the floor
SelectedParentMeetsFloor ==
    pc \in ParentHeld =>
        /\ parent \in Archived
        /\ HasEvent("parent_selected")
        /\ EventOf("parent_selected").candidateId = parent.id
        /\ (\E c \in Archived : MeetsFloor(c)) => MeetsFloor(parent)
        /\ ~MeetsFloor(parent) => \A c \in Archived : ~MeetsFloor(c)

\* The archive holds a baseline below the floor and an offspring above it, and the
\* offspring is the selected parent
SelectedParentMeetsFloorWitness ==
    /\ pc \in ParentHeld
    /\ config.minAccuracy = 700
    /\ \E c \in Archived : ~MeetsFloor(c)
    /\ MeetsFloor(parent)
    /\ parent.id > 1

-----------------------------------------------------------------------------
(* Properties of the archive and of its index, under Spec *)

\* C34 as stated: an offspring that was just archived and indexed is a member of
\* at least one task front, as the isPareto flag of its candidate_done event says
AcceptedOffspringIsOnAFront ==
    (pc = "loop" /\ HasEvent("offspring_accepted")) =>
        /\ EventOf("candidate_done").isPareto
        /\ FrontsHolding(EventOf("offspring_accepted").candidateId) # {}

\* C35: the archive is append-only. A step that changes it appends exactly one
\* candidate under an id the archive did not hold; the entries held before keep
\* their position, descriptions, evaluation results, accuracy and parent link, so
\* the size never decreases and no id is held twice
ArchiveIsAppendOnly ==
    [][ /\ GetArchiveSize(archive') >= GetArchiveSize(archive)
        /\ \A i \in DOMAIN archive.candidates :
              archive'.candidates[i] = archive.candidates[i]
        /\ \A id \in DOMAIN archive.parentOf :
              /\ id \in DOMAIN archive'.parentOf
              /\ archive'.parentOf[id] = archive.parentOf[id]
        /\ archive' # archive =>
              /\ GetArchiveSize(archive') = GetArchiveSize(archive) + 1
              /\ archive'.candidates[GetArchiveSize(archive')].id
                    \notin ArchiveIds(archive)
        /\ Cardinality(ArchiveIds(archive')) = GetArchiveSize(archive')
      ]_vars

\* Two offspring were appended after the baseline, each under its parent
ArchiveIsAppendOnlyWitness ==
    /\ GetArchiveSize(archive) = 3
    /\ Cardinality(ArchiveIds(archive)) = 3
    /\ DOMAIN archive.parentOf = {2, 3}
    /\ lastOp = "insert"

-----------------------------------------------------------------------------
(* Runs that are stopped by the user and whose loop may fail *)

\* Runs with a test set and no accuracy floor
StoppableConfigs ==
    {c \in Configs : Len(c.testCases) \in 1..MaxTests /\ c.minAccuracy = 0}

InitStoppable ==
    /\ config \in StoppableConfigs
    /\ pc = "start"
    /\ archive = CreateArchive
    /\ perTaskPareto = CreatePerTaskPareto(<<>>)
    /\ totalEvaluations = 0
    /\ acceptedCount = 0
    /\ rejectedCount = 0
    /\ iteration = 0
    /\ parent = NoCandidate
    /\ offspring = NoCandidate
    /\ reflection = NoReflection
    /\ subsample = <<>>
    /\ subsampleScore = NoScore
    /\ parentSubsampleScore = NoScore
    /\ nextId = 1
    /\ events = <<>>
    /\ ledger = EmptyLedger
    /\ lastOp = "none"
    /\ server = NoRun
    /\ runs = <<>>

\* The stop request and an exception of the loop, in any order
NextStoppable ==
    \/ Next
    \/ HandleStopOptimization
    \/ InternalError

SpecStoppable == InitStoppable /\ [][NextStoppable]_vars

-----------------------------------------------------------------------------
(* Properties of the stored status of a run, under SpecStoppable *)

\* C36 as stated: once the stored status of a run is completed or failed it never
\* changes to a different value
FinalStatusIsStable ==
    [][ server.status \in {"completed", "failed"} =>
          server'.status = server.status ]_vars

-----------------------------------------------------------------------------
(* Properties of the sequence of iterations, under FairSpec *)

IterationEvents(type) == {i \in DOMAIN events : events[i].type = type}

\* C37: once the baseline is archived parent selection returns a candidate, so
\* every iteration_start is followed by parent_selected and, the LLM calls
\* returning, by exactly one offspring_accepted or offspring_rejected and then
\* exactly one iteration_done, all with the iteration number of the
\* iteration_start; the numbers run 1, 2, 3, ... without gap or repeat
IterationsRunToTheirEnd ==
    /\ [](HasEvent("iteration_start") =>
             /\ Cardinality(IterationEvents("iteration_start")) = 1
             /\ EventOf("iteration_start").iteration = iteration
             /\ iteration >= 1
             /\ HasEvent("parent_selected")
             /\ EventOf("parent_selected").iteration = iteration)
    /\ (HasEvent("iteration_start") /\ ~HasEvent("iteration_done"))
          ~> HasEvent("iteration_done")
    /\ [](HasEvent("iteration_done") =>
             /\ Cardinality(IterationEvents("iteration_done")) = 1
             /\ Cardinality(Verdicts) = 1
             /\ \A v \in Verdicts :
                   /\ v < CHOOSE d \in IterationEvents("iteration_done") : TRUE
                   /\ events[v].iteration = iteration
             /\ EventOf("iteration_done").iteration = iteration)
    /\ [](~HasEvent("iteration_done") => Verdicts = {})
    /\ [][ /\ iteration' \in {iteration, iteration + 1}
           /\ iteration' = iteration + 1 <=>
                 (pc = "loop" /\ pc' = "mutate" /\ iteration' = 1 + iteration)
           /\ iteration' = iteration + 1 =>
                 (iteration = 0 \/ HasEvent("iteration_done")) ]_vars

\* The second iteration has ended with a rejection
IterationsRunToTheirEndWitness ==
    /\ iteration = 2
    /\ HasEvent("offspring_rejected")
    /\ HasEvent("iteration_done")
    /\ EventOf("iteration_done").iteration = 2
    /\ pc = "loop"

-----------------------------------------------------------------------------
(* Properties of the counters of runGEPA, under Spec *)

\* C38: when an iteration has ended (iteration_done) and at optimization_complete,
\* acceptedCount + rejectedCount = iteration + 1, the baseline counting as accepted;
\* the step that ends an iteration advances exactly one of the two counters by
\* exactly one, and no other step of the loop changes them
CountersMatchIteration ==
    /\ [](HasEvent("iteration_done") =>
             /\ EventOf("iteration_done").iteration = iteration
             /\ acceptedCount + rejectedCount = iteration + 1)
    /\ [](HasEvent("optimization_complete") =>
             /\ EventOf("optimization_complete").acceptedCount = acceptedCount
             /\ EventOf("optimization_complete").rejectedCount = rejectedCount
             /\ acceptedCount + rejectedCount = iteration + 1)
    /\ [](pc = "loop" => acceptedCount + rejectedCount = iteration + 1)
    /\ [](pc \in ParentHeld => acceptedCount + rejectedCount = iteration)
    /\ [][ IF pc = "eval_original"
           THEN acceptedCount' = 1 /\ rejectedCount' = 0
           ELSE IF pc \in {"subsample", "full_eval"} /\ pc' = "loop"
           THEN \/ /\ acceptedCount' = acceptedCount + 1
                   /\ rejectedCount' = rejectedCount
                   /\ pc = "full_eval"
                \/ /\ rejectedCount' = rejectedCount + 1
                   /\ acceptedCount' = acceptedCount
                   /\ pc = "subsample"
           ELSE UNCHANGED <<acceptedCount, rejectedCount>> ]_vars

\* A run of three iterations, one accepted and two rejected, has completed
CountersMatchIterationWitness ==
    /\ HasEvent("optimization_complete")
    /\ iteration = 3
    /\ acceptedCount = 2
    /\ rejectedCount = 2

-----------------------------------------------------------------------------
(* Properties of the task fronts over time, under SpecPareto *)

\* C39: once a first candidate (the baseline) has been inserted into the index,
\* every task front is non-empty; so some archived candidate has a positive
\* dominance count, and selectParentWeighted draws from the candidates with a
\* positive count, all on a front, without its uniform fallback
FrontsStayNonEmpty ==
    GetArchiveSize(archive) >= 1 =>
        /\ \A t \in DOMAIN perTaskPareto.taskFronts : Front(t) # {}
        /\ \E c \in Archived : DominanceCountOf(c.id) > 0
        /\ CandidatesWithCounts(perTaskPareto) # {}
        /\ SelectParentWeighted(perTaskPareto, archive) =
              {c \in Archived : FrontsHolding(c.id) # {}}

\* A second candidate has taken over every front but one from the first
FrontsStayNonEmptyWitness ==
    /\ GetArchiveSize(archive) = 2
    /\ lastOp = "insert"
    /\ NumTests >= 2
    /\ Cardinality(FrontsHolding(1)) = 1
    /\ Cardinality(FrontsHolding(2)) = NumTests - 1

====
